---- MODULE Spec2Model ----
(***************************************************************************)
(* Model of the DayZ loot editor (src/src/editor.rs, src/src/main.rs):     *)
(* the XML codec (parse_types / serialize_types) and the Editor state      *)
(* machine driven by Editor::handle_action, with Editor::load and          *)
(* Editor::save acting on the files of the selected source.                *)
(*                                                                         *)
(* Strings are sequences of symbols.  A character typed by the user is one *)
(* symbol; a string literal of the source ("new_type", "_copy", ...) is    *)
(* kept as one symbol carrying the literal's text, so that concatenation,  *)
(* push and pop act on symbols.  Option<T> is a sequence of length 0 or 1. *)
(***************************************************************************)
EXTENDS Integers, Sequences, FiniteSets, TLC

VARIABLES
    window,          \* main.rs WindowState: "FilePicker" | "Editor"
    types,           \* Editor.types: Seq(TypeEntry)
    selected_type,   \* Editor.selected_type
    selected_field,  \* Editor.selected_field
    multi_select,    \* Editor.multi_select
    selected_types,  \* Editor.selected_types (BTreeSet<usize>, 0-based)
    undo_stack,      \* Editor.undo_stack: Seq(EditorSnapshot), top is last
    redo_stack,      \* Editor.redo_stack
    focus,           \* Editor.focus: "TypeList" | "FieldList" | "Editing"
    editing_target,  \* Editor.editing_target: Option<EditTarget>
    pending_add,     \* Editor.pending_add: Option<PendingAdd>
    input_buffer,    \* Editor.input_buffer
    status,          \* Editor.status: [msg, n]
    path,            \* Editor.path: Option<PathBuf>
    source,          \* Editor.source: "Local" | "Remote"
    last,            \* history: the handler that made the last step
    hist,            \* history: command / undo / redo bookkeeping
    steps,           \* history: number of key events that changed the state
    codec,           \* the codec pipeline of the round-trip specification
    picker,          \* FilePicker.backend: "Local" | "Remote"
    disk,            \* the files of the selected source: [main, bak], each
                     \* an Option of the file's content
    proc,            \* the process: "running", or "failed" once main
                     \* returned an error
    save_log         \* history: the file operations of the last Save

edVars == <<types, selected_type, selected_field, multi_select, selected_types,
            undo_stack, redo_stack, focus, editing_target, pending_add,
            input_buffer, status, path, source>>
envVars == <<picker, disk, proc, save_log>>
vars == <<window, types, selected_type, selected_field, multi_select,
          selected_types, undo_stack, redo_stack, focus, editing_target,
          pending_add, input_buffer, status, path, source, last, hist, steps,
          codec, picker, disk, proc, save_log>>

----------------------------------------------------------------------------
(* Bounds of the model *)

MaxChildren == 2
MaxSteps == 6
MaxInput == 1
MaxFileSteps == 3
MaxFields == 3

----------------------------------------------------------------------------
(* Option, strings *)

None == <<>>
Some(x) == <<x>>
IsSome(o) == Len(o) > 0
Unwrap(o) == o[1]

Str(c) == <<c>>
EmptyString == <<>>

IsWhitespace(s) == \A i \in 1..Len(s) : s[i] = " "

RECURSIVE TrimStart(_)
TrimStart(s) ==
    IF s # <<>> /\ Head(s) = " " THEN TrimStart(Tail(s)) ELSE s

RECURSIVE TrimEnd(_)
TrimEnd(s) ==
    IF s # <<>> /\ s[Len(s)] = " " THEN TrimEnd(SubSeq(s, 1, Len(s) - 1)) ELSE s

Trim(s) == TrimEnd(TrimStart(s))

----------------------------------------------------------------------------
(* Data model: FieldKey, Field, TypeEntry *)

Element(n, i) == [kind |-> "Element", name |-> n, index |-> i, attr |-> EmptyString]
Attribute(e, i, a) == [kind |-> "Attribute", name |-> e, index |-> i, attr |-> a]

Field(k, v) == [key |-> k, value |-> v]
TypeEntry(n, fs) == [name |-> n, fields |-> fs]


\* set_name writing the element name whatever the kind of the key
set_name_element(key, new_name) == [key EXCEPT !.name = new_name]

\* FieldKey::set_name
set_name(key, new_name) ==
    IF key.kind = "Element"
    THEN [key EXCEPT !.name = new_name]
    ELSE [key EXCEPT !.attr = new_name]

\* FieldKey::get_element_name
get_element_name(key) == key.name

----------------------------------------------------------------------------
(* XML documents and the events the reader yields for them.                *)
(* A document is the sequence of <type> elements under the <types> root;   *)
(* a <type> is [attrs, kids]; a child element is [name, attrs, text, kids]: *)
(* its text comes before its own child elements (the grandchildren of the  *)
(* <type>), which the file format does not use.                            *)

XmlAttr(n, v) == [name |-> n, value |-> v]
XmlElem(n, as, t) == [name |-> n, attrs |-> as, text |-> t, kids |-> <<>>]
XmlNested(n, as, t, ks) == [name |-> n, attrs |-> as, text |-> t, kids |-> ks]
XmlType(as, ks) == [attrs |-> as, kids |-> ks]

StartElement(n, as) == [ev |-> "StartElement", name |-> n, attributes |-> as, text |-> EmptyString]
EndElement(n) == [ev |-> "EndElement", name |-> n, attributes |-> <<>>, text |-> EmptyString]
Characters(t) == [ev |-> "Characters", name |-> EmptyString, attributes |-> <<>>, text |-> t]
Whitespace(t) == [ev |-> "Whitespace", name |-> EmptyString, attributes |-> <<>>, text |-> t]

RECURSIVE Flatten(_)
Flatten(ss) == IF ss = <<>> THEN <<>> ELSE Head(ss) \o Flatten(Tail(ss))

\* character data: nothing for no text, a Whitespace event for blank text
TextEvents(t) ==
    IF t = EmptyString THEN <<>>
    ELSE IF IsWhitespace(t) THEN <<Whitespace(t)>>
    ELSE <<Characters(t)>>

\* an element without child elements
LeafEvents(x) ==
    <<StartElement(x.name, x.attrs)>> \o TextEvents(x.text) \o <<EndElement(x.name)>>

ElemEvents(x) ==
    <<StartElement(x.name, x.attrs)>> \o TextEvents(x.text)
        \o Flatten([i \in 1..Len(x.kids) |-> LeafEvents(x.kids[i])])
        \o <<EndElement(x.name)>>

TypeEvents(t) ==
    <<StartElement(Str("type"), t.attrs)>>
        \o Flatten([i \in 1..Len(t.kids) |-> ElemEvents(t.kids[i])])
        \o <<EndElement(Str("type"))>>

EventReader(doc) ==
    <<StartElement(Str("types"), <<>>)>>
        \o Flatten([i \in 1..Len(doc) |-> TypeEvents(doc[i])])
        \o <<EndElement(Str("types"))>>

----------------------------------------------------------------------------
(* parse_types *)

EmptyMap == [k \in {} |-> 0]
MapGet(m, k) == IF k \in DOMAIN m THEN m[k] ELSE 0
MapPut(m, k, v) == [x \in (DOMAIN m) \cup {k} |-> IF x = k THEN v ELSE m[x]]

ParseInit ==
    [types |-> <<>>, current |-> None, element_indices |-> EmptyMap,
     current_element |-> None]

\* the value of the first attribute called "name", or the empty string
NameAttr(attributes) ==
    LET hits == SelectSeq(attributes, LAMBDA a : a.name = Str("name"))
    IN IF hits = <<>> THEN EmptyString ELSE hits[1].value

AttrFields(el, idx, attributes) ==
    [i \in 1..Len(attributes) |->
        Field(Attribute(el, idx, attributes[i].name), attributes[i].value)]


\* ParseStartIndex reading the counter after its increment
ParseStartIndexIncremented(ps, el) == MapGet(ps.element_indices, el) + 1

ParseStartIndex(ps, el) == MapGet(ps.element_indices, el)

ParseEvent(ps, e) ==
    IF e.ev = "StartElement" THEN
        IF e.name = Str("type") THEN
            [ps EXCEPT !.current = Some(TypeEntry(NameAttr(e.attributes), <<>>)),
                       !.element_indices = EmptyMap,
                       !.current_element = None]
        ELSE
            LET idx == ParseStartIndex(ps, e.name) IN
            [ps EXCEPT !.element_indices = MapPut(ps.element_indices, e.name, idx + 1),
                       !.current =
                           IF IsSome(ps.current)
                           THEN Some([Unwrap(ps.current) EXCEPT !.fields =
                                       @ \o AttrFields(e.name, idx, e.attributes)])
                           ELSE None,
                       !.current_element = Some(<<e.name, idx>>)]
    ELSE IF e.ev = "Characters" THEN
        LET trimmed == Trim(e.text) IN
        IF trimmed = EmptyString THEN ps
        ELSE IF IsSome(ps.current_element) /\ IsSome(ps.current) THEN
            LET ce == Unwrap(ps.current_element) IN
            [ps EXCEPT !.current = Some([Unwrap(ps.current) EXCEPT !.fields =
                                       Append(@, Field(Element(ce[1], ce[2]), trimmed))])]
        ELSE ps
    ELSE IF e.ev = "EndElement" THEN
        IF e.name = Str("type") THEN
            [ps EXCEPT !.types = IF IsSome(ps.current)
                                 THEN Append(@, Unwrap(ps.current)) ELSE @,
                       !.current = None,
                       !.element_indices = EmptyMap,
                       !.current_element = None]
        ELSE [ps EXCEPT !.current_element = None]
    ELSE ps

RECURSIVE ParseEvents(_, _)
ParseEvents(ps, events) ==
    IF events = <<>> THEN ps
    ELSE ParseEvents(ParseEvent(ps, Head(events)), Tail(events))

parse_types(content) == ParseEvents(ParseInit, EventReader(content)).types

----------------------------------------------------------------------------
(* serialize_types *)

GroupKey(key) == <<key.name, key.index>>

ElementDataDefault == [attrs |-> <<>>, text |-> None]

PlanInit == [order |-> <<>>, element_map |-> [k \in {} |-> ElementDataDefault]]

\* PlanField keeping the first text of a group instead of the last
PlanFieldFirstText(plan, field) ==
    LET key == GroupKey(field.key)
        seen == key \in DOMAIN plan.element_map
        entry == IF seen THEN plan.element_map[key] ELSE ElementDataDefault
        entry2 == IF field.key.kind = "Element"
                  THEN IF IsSome(entry.text) THEN entry
                       ELSE [entry EXCEPT !.text = Some(field.value)]
                  ELSE [entry EXCEPT !.attrs =
                            Append(@, XmlAttr(field.key.attr, field.value))]
    IN [order |-> IF seen THEN plan.order ELSE Append(plan.order, key),
        element_map |-> [k \in (DOMAIN plan.element_map) \cup {key} |->
                            IF k = key THEN entry2 ELSE plan.element_map[k]]]

PlanField(plan, field) ==
    LET key == GroupKey(field.key)
        seen == key \in DOMAIN plan.element_map
        entry == IF seen THEN plan.element_map[key] ELSE ElementDataDefault
        entry2 == IF field.key.kind = "Element"
                  THEN [entry EXCEPT !.text = Some(field.value)]
                  ELSE [entry EXCEPT !.attrs =
                            Append(@, XmlAttr(field.key.attr, field.value))]
    IN [order |-> IF seen THEN plan.order ELSE Append(plan.order, key),
        element_map |-> [k \in (DOMAIN plan.element_map) \cup {key} |->
                            IF k = key THEN entry2 ELSE plan.element_map[k]]]

RECURSIVE PlanFields(_, _)
PlanFields(plan, fields) ==
    IF fields = <<>> THEN plan
    ELSE PlanFields(PlanField(plan, Head(fields)), Tail(fields))

\* the elements written for one type, in plan order
WriteElements(fields) ==
    LET plan == PlanFields(PlanInit, fields) IN
    [i \in 1..Len(plan.order) |->
        LET data == plan.element_map[plan.order[i]] IN
        XmlElem(plan.order[i][1], data.attrs,
                IF IsSome(data.text) THEN Unwrap(data.text) ELSE EmptyString)]

serialize_types(ts) ==
    [i \in 1..Len(ts) |->
        XmlType(<<XmlAttr(Str("name"), ts[i].name)>>, WriteElements(ts[i].fields))]

----------------------------------------------------------------------------
(* Editor state as one record, so that the methods of impl Editor are      *)
(* functions from editor state to editor state.  Indices are 0-based as in *)
(* the source.                                                             *)

Ed ==
    [types |-> types, selected_type |-> selected_type,
     selected_field |-> selected_field, multi_select |-> multi_select,
     selected_types |-> selected_types, undo_stack |-> undo_stack,
     redo_stack |-> redo_stack, focus |-> focus,
     editing_target |-> editing_target, pending_add |-> pending_add,
     input_buffer |-> input_buffer, status |-> status,
     path |-> path, source |-> source]

SetEditor(e) ==
    /\ types' = e.types
    /\ selected_type' = e.selected_type
    /\ selected_field' = e.selected_field
    /\ multi_select' = e.multi_select
    /\ selected_types' = e.selected_types
    /\ undo_stack' = e.undo_stack
    /\ redo_stack' = e.redo_stack
    /\ focus' = e.focus
    /\ editing_target' = e.editing_target
    /\ pending_add' = e.pending_add
    /\ input_buffer' = e.input_buffer
    /\ status' = e.status
    /\ path' = e.path
    /\ source' = e.source

Status(m) == [msg |-> m, n |-> 0]
StatusN(m, k) == [msg |-> m, n |-> k]

PendingAdd(k, el, idx, nm) == [kind |-> k, element |-> el, index |-> idx, name |-> nm]

\* Vec::get(i)
Get(seq, i) == IF i >= 0 /\ i < Len(seq) THEN Some(seq[i + 1]) ELSE None
\* Vec::remove(i)
RemoveAt(seq, i) == SubSeq(seq, 1, i) \o SubSeq(seq, i + 2, Len(seq))
\* number of Element-keyed fields called n
CountElementNamed(fields, n) ==
    Len(SelectSeq(fields, LAMBDA f : f.key.kind = "Element" /\ f.key.name = n))
\* position (0-based) of the first field with key k, or -1
RECURSIVE PositionFrom(_, _, _)
PositionFrom(fields, k, i) ==
    IF i >= Len(fields) THEN -1
    ELSE IF fields[i + 1].key = k THEN i
    ELSE PositionFrom(fields, k, i + 1)
\* Position comparing the keys without their index
PositionSameName(fields, k) ==
    LET hits == {i \in 0..(Len(fields) - 1) :
                    /\ fields[i + 1].key.kind = k.kind
                    /\ fields[i + 1].key.name = k.name
                    /\ fields[i + 1].key.attr = k.attr}
    IN IF hits = {} THEN -1 ELSE CHOOSE i \in hits : \A j \in hits : i <= j
Position(fields, k) == PositionFrom(fields, k, 0)

\* BTreeSet iteration: ascending
RECURSIVE Ascending(_)
Ascending(S) ==
    IF S = {} THEN <<>>
    ELSE LET m == CHOOSE x \in S : \A y \in S : x <= y
         IN <<m>> \o Ascending(S \ {m})
Reverse(seq) == [i \in 1..Len(seq) |-> seq[Len(seq) + 1 - i]]

\* Editor::new
new ==
    [types |-> <<>>, selected_type |-> 0, selected_field |-> 0,
     multi_select |-> FALSE, selected_types |-> {}, undo_stack |-> <<>>,
     redo_stack |-> <<>>, focus |-> "TypeList", editing_target |-> None,
     pending_add |-> None, input_buffer |-> EmptyString,
     status |-> Status("Load a file to begin"),
     path |-> None, source |-> "Local"]

\* the content of a file: the XML document it holds, or text that is not
\* well-formed XML
File(doc) == [wellformed |-> TRUE, types |-> doc]
Malformed == [wellformed |-> FALSE, types |-> <<>>]
\* remote.rs FileSelection
FileSelection(p, src) == [path |-> p, source |-> src]
\* fs::read_to_string / SshBackend::read_file of the file `main` of the
\* disk d: an io::Result<String>; readable says whether the read succeeds
ReadFile(d, readable) ==
    IF readable /\ IsSome(d.main)
    THEN [ok |-> TRUE, content |-> Unwrap(d.main)]
    ELSE [ok |-> FALSE, content |-> Malformed]

\* Editor::load assigning path and source before the content is parsed
load_path_first(e, selection, read) ==
    IF ~read.ok THEN [ok |-> FALSE, e |-> e]
    ELSE IF ~read.content.wellformed
    THEN [ok |-> FALSE,
          e |-> [e EXCEPT !.path = Some(selection.path),
                          !.source = selection.source]]
    ELSE [ok |-> TRUE,
          e |-> [e EXCEPT !.path = Some(selection.path),
                          !.source = selection.source,
                          !.types = parse_types(read.content.types),
                          !.selected_type = 0,
                          !.selected_field = 0, !.multi_select = FALSE,
                          !.selected_types = {}, !.undo_stack = <<>>,
                          !.redo_stack = <<>>,
                          !.focus = "TypeList", !.editing_target = None,
                          !.pending_add = None, !.input_buffer = EmptyString,
                          !.status = Status("Loaded file")]]

\* Editor::load leaving the history stacks and the edit state as they are
load_keep_history(e, selection, read) ==
    IF ~read.ok THEN [ok |-> FALSE, e |-> e]
    ELSE IF ~read.content.wellformed THEN [ok |-> FALSE, e |-> e]
    ELSE [ok |-> TRUE,
          e |-> [e EXCEPT !.path = Some(selection.path),
                          !.source = selection.source,
                          !.types = parse_types(read.content.types),
                          !.selected_type = 0,
                          !.selected_field = 0, !.multi_select = FALSE,
                          !.selected_types = {},
                          !.focus = "TypeList",
                          !.status = Status("Loaded file")]]

\* Editor::load; read is the result of reading the selected file.  The
\* result is [ok, e]: an Err returns before any field is assigned.
load(e, selection, read) ==
    IF ~read.ok THEN [ok |-> FALSE, e |-> e]
    ELSE IF ~read.content.wellformed THEN [ok |-> FALSE, e |-> e]
    ELSE [ok |-> TRUE,
          e |-> [e EXCEPT !.path = Some(selection.path),
                          !.source = selection.source,
                          !.types = parse_types(read.content.types),
                          !.selected_type = 0,
                          !.selected_field = 0, !.multi_select = FALSE,
                          !.selected_types = {}, !.undo_stack = <<>>,
                          !.redo_stack = <<>>,
                          !.focus = "TypeList", !.editing_target = None,
                          !.pending_add = None, !.input_buffer = EmptyString,
                          !.status = Status("Loaded file")]]

current_fields_len(e) ==
    IF IsSome(Get(e.types, e.selected_type))
    THEN Len(Unwrap(Get(e.types, e.selected_type)).fields) ELSE 0

current_field(e) ==
    IF IsSome(Get(e.types, e.selected_type))
    THEN Get(Unwrap(Get(e.types, e.selected_type)).fields, e.selected_field)
    ELSE None

\* calculate_move_idx clamping at both ends, never wrapping
calculate_move_idx_clamp(selected, new_idx, arr_len) ==
    IF new_idx < 0 THEN 0
    ELSE IF new_idx >= arr_len THEN arr_len - 1
    ELSE new_idx

calculate_move_idx(selected, new_idx, arr_len) ==
    IF selected = arr_len - 1 /\ new_idx >= arr_len THEN 0
    ELSE IF selected = 0 /\ new_idx < 0 THEN arr_len - 1
    ELSE IF new_idx < 0 THEN 0
    ELSE IF new_idx >= arr_len THEN arr_len - 1
    ELSE new_idx

move_selection(e, delta) ==
    IF e.focus = "TypeList" THEN
        IF e.types = <<>> THEN e
        ELSE [e EXCEPT !.selected_type =
                  calculate_move_idx(e.selected_type, e.selected_type + delta, Len(e.types)),
                       !.selected_field = 0]
    ELSE IF e.focus = "FieldList" THEN
        IF current_fields_len(e) = 0 THEN e
        ELSE [e EXCEPT !.selected_field =
                  calculate_move_idx(e.selected_field, e.selected_field + delta,
                                     current_fields_len(e))]
    ELSE e

\* begin_editing starting every edit with an empty input buffer
begin_editing_empty(e) ==
    IF e.focus = "TypeList" THEN
        IF IsSome(Get(e.types, e.selected_type))
        THEN [e EXCEPT !.input_buffer = EmptyString,
                       !.editing_target = Some("TypeName"),
                       !.focus = "Editing",
                       !.status = Status("Editing type name")]
        ELSE e
    ELSE IF e.focus = "FieldList" THEN
        IF IsSome(current_field(e))
        THEN [e EXCEPT !.input_buffer = EmptyString,
                       !.editing_target = Some("FieldValue"),
                       !.focus = "Editing",
                       !.status = Status("Editing field value")]
        ELSE e
    ELSE e

begin_editing(e) ==
    IF e.focus = "TypeList" THEN
        IF IsSome(Get(e.types, e.selected_type))
        THEN [e EXCEPT !.input_buffer = Unwrap(Get(e.types, e.selected_type)).name,
                       !.editing_target = Some("TypeName"),
                       !.focus = "Editing",
                       !.status = Status("Editing type name")]
        ELSE e
    ELSE IF e.focus = "FieldList" THEN
        IF IsSome(current_field(e))
        THEN [e EXCEPT !.input_buffer = Unwrap(current_field(e)).value,
                       !.editing_target = Some("FieldValue"),
                       !.focus = "Editing",
                       !.status = Status("Editing field value")]
        ELSE e
    ELSE e


\* stop_editing returning to the type list whatever was edited
stop_editing_type_list(e) ==
    [e EXCEPT !.focus = IF IsSome(e.editing_target) THEN "TypeList" ELSE e.focus,
              !.editing_target = None,
              !.pending_add = None,
              !.input_buffer = EmptyString]


\* stop_editing leaving the pending add in place
stop_editing_keep_pending(e) ==
    [e EXCEPT !.focus = IF e.editing_target = Some("TypeName") THEN "TypeList"
                        ELSE IF IsSome(e.editing_target) THEN "FieldList"
                        ELSE e.focus,
              !.editing_target = None,
              !.input_buffer = EmptyString]

stop_editing(e) ==
    [e EXCEPT !.focus = IF e.editing_target = Some("TypeName") THEN "TypeList"
                        ELSE IF IsSome(e.editing_target) THEN "FieldList"
                        ELSE e.focus,
              !.editing_target = None,
              !.pending_add = None,
              !.input_buffer = EmptyString]


\* snapshot recording the focus as it is, Editing included
snapshot_keep_focus(e) ==
    [types |-> e.types, selected_type |-> e.selected_type,
     selected_field |-> e.selected_field, multi_select |-> e.multi_select,
     selected_types |-> e.selected_types, focus |-> e.focus]

snapshot(e) ==
    [types |-> e.types, selected_type |-> e.selected_type,
     selected_field |-> e.selected_field, multi_select |-> e.multi_select,
     selected_types |-> e.selected_types,
     focus |-> IF e.focus = "Editing" THEN "FieldList" ELSE e.focus]

restore_snapshot(e, s) ==
    [e EXCEPT !.types = s.types, !.selected_type = s.selected_type,
              !.selected_field = s.selected_field,
              !.multi_select = s.multi_select,
              !.selected_types = s.selected_types, !.focus = s.focus,
              !.editing_target = None, !.pending_add = None,
              !.input_buffer = EmptyString]

\* push_undo leaving the redo stack as it is
push_undo_keep_redo(e) ==
    [e EXCEPT !.undo_stack = Append(@, snapshot(e))]

push_undo(e) ==
    [e EXCEPT !.undo_stack = Append(@, snapshot(e)), !.redo_stack = <<>>]


\* undo dropping the state it leaves, the redo stack left as it is
undo_forget_current(e) ==
    IF e.undo_stack = <<>> THEN [e EXCEPT !.status = Status("Nothing to undo")]
    ELSE LET previous == e.undo_stack[Len(e.undo_stack)]
             popped == [e EXCEPT !.undo_stack = SubSeq(@, 1, Len(@) - 1)]
         IN [restore_snapshot(popped, previous) EXCEPT !.status = Status("Undid change")]

undo(e) ==
    IF e.undo_stack = <<>> THEN [e EXCEPT !.status = Status("Nothing to undo")]
    ELSE LET current == snapshot(e)
             previous == e.undo_stack[Len(e.undo_stack)]
             popped == [e EXCEPT !.undo_stack = SubSeq(@, 1, Len(@) - 1),
                                 !.redo_stack = Append(@, current)]
         IN [restore_snapshot(popped, previous) EXCEPT !.status = Status("Undid change")]

redo(e) ==
    IF e.redo_stack = <<>> THEN [e EXCEPT !.status = Status("Nothing to redo")]
    ELSE LET current == snapshot(e)
             next == e.redo_stack[Len(e.redo_stack)]
             popped == [e EXCEPT !.redo_stack = SubSeq(@, 1, Len(@) - 1),
                                 !.undo_stack = Append(@, current)]
         IN [restore_snapshot(popped, next) EXCEPT !.status = Status("Redid change")]

toggle_type_selection(e) ==
    IF e.focus # "TypeList" \/ e.types = <<>> THEN e
    ELSE LET toggled == IF e.selected_type \in e.selected_types
                        THEN e.selected_types \ {e.selected_type}
                        ELSE e.selected_types \cup {e.selected_type}
         IN IF toggled = {}
            THEN [e EXCEPT !.selected_types = toggled, !.multi_select = FALSE,
                           !.status = Status("Multi-select cleared")]
            ELSE [e EXCEPT !.selected_types = toggled, !.multi_select = TRUE,
                           !.status = StatusN("Selected types", Cardinality(toggled))]

\* clear_multi_select leaving the selection set as it is
clear_multi_select_flag(e) ==
    IF e.multi_select
    THEN [e EXCEPT !.multi_select = FALSE, !.status = Status("Multi-select cleared")]
    ELSE e

clear_multi_select(e) ==
    IF e.multi_select
    THEN [e EXCEPT !.multi_select = FALSE, !.selected_types = {},
                   !.status = Status("Multi-select cleared")]
    ELSE e

selected_type_indices(e) ==
    IF e.multi_select THEN Ascending(e.selected_types)
    ELSE IF e.types = <<>> THEN <<>>
    ELSE <<e.selected_type>>

----------------------------------------------------------------------------
(* The commands of impl Editor *)

begin_multi_add_field(e) ==
    IF e.types = <<>> THEN e
    ELSE IF selected_type_indices(e) = <<>>
    THEN [e EXCEPT !.status = Status("No types selected")]
    ELSE [e EXCEPT !.pending_add = Some(PendingAdd("Field", EmptyString, 0, None)),
                   !.focus = "Editing",
                   !.editing_target = Some("FieldName"),
                   !.input_buffer = Str("new_field"),
                   !.status = Status("Enter a name for the new field")]

begin_multi_add_attribute(e) ==
    IF e.types = <<>> THEN e
    ELSE IF selected_type_indices(e) = <<>>
    THEN [e EXCEPT !.status = Status("No types selected")]
    ELSE IF ~IsSome(current_field(e)) THEN e
    ELSE LET base_field == Unwrap(current_field(e)) IN
         [e EXCEPT !.pending_add = Some(PendingAdd("Attribute",
                                       get_element_name(base_field.key),
                                       base_field.key.index, None)),
                   !.focus = "Editing",
                   !.editing_target = Some("FieldName"),
                   !.input_buffer = Str("new_attr"),
                   !.status = Status("Enter a name for the new attribute")]

\* PendingField giving every new element the index 0
PendingFieldFirst(pending, ty, name, value) ==
    IF pending.kind = "Field"
    THEN Field(Element(name, 0), value)
    ELSE Field(Attribute(pending.element, pending.index, name), value)

\* the field a pending add appends to type ty
PendingField(pending, ty, name, value) ==
    IF pending.kind = "Field"
    THEN Field(Element(name, CountElementNamed(ty.fields, name)), value)
    ELSE Field(Attribute(pending.element, pending.index, name), value)


\* FanOut pushing a snapshot for every type it appends to
RECURSIVE FanOutSnapshotEach(_, _, _, _, _)
FanOutSnapshotEach(e, pending, name, value, indices) ==
    IF indices = <<>> THEN [e |-> e, updated |-> 0]
    ELSE LET idx == Head(indices)
             hit == idx < Len(e.types)
             e0 == push_undo(e)
             pushed == Append(e0.types[idx + 1].fields,
                              PendingField(pending, e0.types[idx + 1], name, value))
             e1 == IF hit
                   THEN [e0 EXCEPT !.types[idx + 1].fields = pushed,
                                   !.selected_field =
                                       IF idx = e0.selected_type THEN Len(pushed) - 1 ELSE @]
                   ELSE e
             rest == FanOutSnapshotEach(e1, pending, name, value, Tail(indices))
         IN [e |-> rest.e, updated |-> rest.updated + (IF hit THEN 1 ELSE 0)]

\* the loop of apply_pending_add over the selected indices: [e, updated]
RECURSIVE FanOut(_, _, _, _, _)
FanOut(e, pending, name, value, indices) ==
    IF indices = <<>> THEN [e |-> e, updated |-> 0]
    ELSE LET idx == Head(indices)
             hit == idx < Len(e.types)
             pushed == Append(e.types[idx + 1].fields,
                              PendingField(pending, e.types[idx + 1], name, value))
             e1 == IF hit
                   THEN [e EXCEPT !.types[idx + 1].fields = pushed,
                                  !.selected_field =
                                      IF idx = e.selected_type THEN Len(pushed) - 1 ELSE @]
                   ELSE e
             rest == FanOut(e1, pending, name, value, Tail(indices))
         IN [e |-> rest.e, updated |-> rest.updated + (IF hit THEN 1 ELSE 0)]

PendingLabel(pending) ==
    IF pending.kind = "Field" THEN "field" ELSE "attribute"

\* apply_pending_add and apply_input return [e, cont]: the new state and
\* whether the editing session continues
apply_pending_add(e) ==
    LET value == e.input_buffer
        pending == Unwrap(e.pending_add)
    IN
    IF e.editing_target = Some("FieldName") THEN
        [e |-> [e EXCEPT !.pending_add = Some([pending EXCEPT !.name = Some(value)]),
                         !.input_buffer = EmptyString,
                         !.editing_target = Some("FieldValue"),
                         !.status = Status(IF pending.kind = "Field"
                                           THEN "Enter a value for the new field"
                                           ELSE "Enter a value for the new attribute")],
         cont |-> TRUE]
    ELSE IF e.editing_target = Some("FieldValue") THEN
        LET name == IF IsSome(pending.name) THEN Unwrap(pending.name) ELSE Str("new_field")
            indices == selected_type_indices(e)
        IN IF indices = <<>>
           THEN [e |-> [e EXCEPT !.status = Status("No types selected")], cont |-> FALSE]
           ELSE LET r == FanOut(push_undo(e), pending, name, value, indices) IN
                [e |-> [r.e EXCEPT !.status =
                            StatusN(IF pending.kind = "Field"
                                    THEN "Added field to types"
                                    ELSE "Added attribute to types", r.updated),
                                   !.pending_add = None],
                 cont |-> FALSE]
    ELSE [e |-> e, cont |-> FALSE]

apply_input(e) ==
    IF IsSome(e.pending_add) THEN apply_pending_add(e)
    ELSE
    LET value == e.input_buffer IN
    IF e.editing_target = Some("TypeName") THEN
        IF e.selected_type < Len(e.types)
        THEN [e |-> [push_undo(e) EXCEPT !.types[e.selected_type + 1].name = value,
                                         !.status = Status("Type renamed")],
              cont |-> FALSE]
        ELSE [e |-> e, cont |-> FALSE]
    ELSE IF e.editing_target = Some("FieldName") THEN
        IF IsSome(current_field(e))
        THEN LET field == Unwrap(current_field(e)) IN
             [e |-> [push_undo(e) EXCEPT
                        !.types[e.selected_type + 1].fields[e.selected_field + 1].key =
                            set_name(field.key, value),
                        !.input_buffer = field.value,
                        !.editing_target = Some("FieldValue"),
                        !.status = Status("Field renamed; edit value")],
              cont |-> TRUE]
        ELSE [e |-> e, cont |-> FALSE]
    ELSE IF e.editing_target = Some("FieldValue") THEN
        IF IsSome(current_field(e))
        THEN [e |-> [push_undo(e) EXCEPT
                        !.types[e.selected_type + 1].fields[e.selected_field + 1].value = value,
                        !.status = Status("Value updated")],
              cont |-> FALSE]
        ELSE [e |-> e, cont |-> FALSE]
    ELSE [e |-> e, cont |-> FALSE]

\* default_fields with count_in_map off
default_fields_unmapped ==
    << Field(Element(Str("nominal"), 0), EmptyString),
       Field(Element(Str("lifetime"), 0), EmptyString),
       Field(Element(Str("restock"), 0), EmptyString),
       Field(Element(Str("min"), 0), EmptyString),
       Field(Element(Str("quantmin"), 0), EmptyString),
       Field(Element(Str("quantmax"), 0), EmptyString),
       Field(Element(Str("cost"), 0), EmptyString),
       Field(Attribute(Str("flags"), 0, Str("count_in_cargo")), Str("0")),
       Field(Attribute(Str("flags"), 0, Str("count_in_hoarder")), Str("0")),
       Field(Attribute(Str("flags"), 0, Str("count_in_map")), Str("0")),
       Field(Attribute(Str("flags"), 0, Str("count_in_player")), Str("0")),
       Field(Attribute(Str("flags"), 0, Str("crafted")), Str("0")),
       Field(Attribute(Str("flags"), 0, Str("deloot")), Str("0")),
       Field(Attribute(Str("category"), 0, Str("name")), EmptyString) >>

default_fields ==
    << Field(Element(Str("nominal"), 0), EmptyString),
       Field(Element(Str("lifetime"), 0), EmptyString),
       Field(Element(Str("restock"), 0), EmptyString),
       Field(Element(Str("min"), 0), EmptyString),
       Field(Element(Str("quantmin"), 0), EmptyString),
       Field(Element(Str("quantmax"), 0), EmptyString),
       Field(Element(Str("cost"), 0), EmptyString),
       Field(Attribute(Str("flags"), 0, Str("count_in_cargo")), Str("0")),
       Field(Attribute(Str("flags"), 0, Str("count_in_hoarder")), Str("0")),
       Field(Attribute(Str("flags"), 0, Str("count_in_map")), Str("1")),
       Field(Attribute(Str("flags"), 0, Str("count_in_player")), Str("0")),
       Field(Attribute(Str("flags"), 0, Str("crafted")), Str("0")),
       Field(Attribute(Str("flags"), 0, Str("deloot")), Str("0")),
       Field(Attribute(Str("category"), 0, Str("name")), EmptyString) >>


\* add appending a type from the type list in multi-select mode too
add_multi_type(e) ==
    IF e.focus = "TypeList" THEN
        LET e1 == push_undo(e)
            pushed == Append(e1.types, TypeEntry(Str("new_type"), default_fields))
        IN [e1 EXCEPT !.types = pushed,
                      !.selected_type = Len(pushed) - 1,
                      !.selected_field = 0,
                      !.focus = "Editing",
                      !.editing_target = Some("TypeName"),
                      !.input_buffer = Str("new_type"),
                      !.status = Status("Enter a name for the new type")]
    ELSE IF e.focus = "FieldList" THEN
        IF e.multi_select THEN begin_multi_add_field(e)
        ELSE IF e.types = <<>> THEN e
        ELSE LET e1 == push_undo(e)
                 new_field_name == Str("new_field")
                 ty == Get(e1.types, e1.selected_type)
                 idx == IF IsSome(ty)
                        THEN CountElementNamed(Unwrap(ty).fields, new_field_name)
                        ELSE 0
                 field == Field(Element(new_field_name, idx), EmptyString)
             IN IF IsSome(ty)
                THEN [e1 EXCEPT !.types[e1.selected_type + 1].fields = Append(@, field),
                                !.selected_field = Len(Unwrap(ty).fields),
                                !.input_buffer = new_field_name,
                                !.editing_target = Some("FieldName"),
                                !.focus = "Editing",
                                !.status = Status("Added new field; enter a name")]
                ELSE [e1 EXCEPT !.status = Status("Added new field; enter a name")]
    ELSE e

add(e) ==
    IF e.focus = "TypeList" THEN
        IF e.multi_select
        THEN [e EXCEPT !.status = Status("Multi-select: add fields from the field list")]
        ELSE LET e1 == push_undo(e)
                 pushed == Append(e1.types, TypeEntry(Str("new_type"), default_fields))
             IN [e1 EXCEPT !.types = pushed,
                           !.selected_type = Len(pushed) - 1,
                           !.selected_field = 0,
                           !.focus = "Editing",
                           !.editing_target = Some("TypeName"),
                           !.input_buffer = Str("new_type"),
                           !.status = Status("Enter a name for the new type")]
    ELSE IF e.focus = "FieldList" THEN
        IF e.multi_select THEN begin_multi_add_field(e)
        ELSE IF e.types = <<>> THEN e
        ELSE LET e1 == push_undo(e)
                 new_field_name == Str("new_field")
                 ty == Get(e1.types, e1.selected_type)
                 idx == IF IsSome(ty)
                        THEN CountElementNamed(Unwrap(ty).fields, new_field_name)
                        ELSE 0
                 field == Field(Element(new_field_name, idx), EmptyString)
             IN IF IsSome(ty)
                THEN [e1 EXCEPT !.types[e1.selected_type + 1].fields = Append(@, field),
                                !.selected_field = Len(Unwrap(ty).fields),
                                !.input_buffer = new_field_name,
                                !.editing_target = Some("FieldName"),
                                !.focus = "Editing",
                                !.status = Status("Added new field; enter a name")]
                ELSE [e1 EXCEPT !.status = Status("Added new field; enter a name")]
    ELSE e

\* add_attribute putting the attribute on occurrence 0 of the element
add_attribute_first(e) ==
    IF e.multi_select THEN
        IF e.focus = "FieldList" THEN begin_multi_add_attribute(e)
        ELSE [e EXCEPT !.status = Status("Multi-select: add attributes from the field list")]
    ELSE IF e.types = <<>> THEN e
    ELSE IF ~IsSome(current_field(e)) THEN e
    ELSE LET base_field == Unwrap(current_field(e))
             e1 == push_undo(e)
             new_attr_name == Str("new_attr")
             field == Field(Attribute(get_element_name(base_field.key), 0, new_attr_name),
                            EmptyString)
         IN [e1 EXCEPT !.types[e1.selected_type + 1].fields = Append(@, field),
                       !.selected_field = Len(e1.types[e1.selected_type + 1].fields),
                       !.input_buffer = new_attr_name,
                       !.editing_target = Some("FieldName"),
                       !.focus = "Editing",
                       !.status = Status("Added new attribute; enter a name")]

add_attribute(e) ==
    IF e.multi_select THEN
        IF e.focus = "FieldList" THEN begin_multi_add_attribute(e)
        ELSE [e EXCEPT !.status = Status("Multi-select: add attributes from the field list")]
    ELSE IF e.types = <<>> THEN e
    ELSE IF ~IsSome(current_field(e)) THEN e
    ELSE LET base_field == Unwrap(current_field(e))
             e1 == push_undo(e)
             new_attr_name == Str("new_attr")
             field == Field(Attribute(get_element_name(base_field.key),
                                      base_field.key.index, new_attr_name),
                            EmptyString)
         IN [e1 EXCEPT !.types[e1.selected_type + 1].fields = Append(@, field),
                       !.selected_field = Len(e1.types[e1.selected_type + 1].fields),
                       !.input_buffer = new_attr_name,
                       !.editing_target = Some("FieldName"),
                       !.focus = "Editing",
                       !.status = Status("Added new attribute; enter a name")]

\* copy changing the types without pushing a snapshot
copy_no_snapshot(e) ==
    IF e.focus = "TypeList" THEN
        IF IsSome(Get(e.types, e.selected_type))
        THEN LET current == Unwrap(Get(e.types, e.selected_type))
                 clone == [current EXCEPT !.name = @ \o Str("_copy")]
             IN [e EXCEPT !.types = Append(@, clone),
                          !.selected_type = Len(e.types),
                          !.selected_field = 0,
                          !.status = Status("Type copied")]
        ELSE e
    ELSE IF e.focus = "FieldList" THEN
        IF IsSome(current_field(e))
        THEN LET field == Unwrap(current_field(e))
             IN [e EXCEPT !.types[e.selected_type + 1].fields = Append(@, field),
                          !.selected_field = Len(e.types[e.selected_type + 1].fields),
                          !.status = Status("Field copied")]
        ELSE e
    ELSE e


\* copy putting the clone right after the current type
copy_after_current(e) ==
    IF e.focus = "TypeList" THEN
        IF IsSome(Get(e.types, e.selected_type))
        THEN LET current == Unwrap(Get(e.types, e.selected_type))
                 clone == [current EXCEPT !.name = @ \o Str("_copy")]
                 e1 == push_undo(e)
             IN [e1 EXCEPT !.types = SubSeq(@, 1, e.selected_type + 1) \o <<clone>>
                                         \o SubSeq(@, e.selected_type + 2, Len(@)),
                           !.selected_type = e.selected_type + 1,
                           !.selected_field = 0,
                           !.status = Status("Type copied")]
        ELSE e
    ELSE IF e.focus = "FieldList" THEN
        IF IsSome(current_field(e))
        THEN LET field == Unwrap(current_field(e))
                 e1 == push_undo(e)
             IN [e1 EXCEPT !.types[e1.selected_type + 1].fields = Append(@, field),
                           !.selected_field = Len(e1.types[e1.selected_type + 1].fields),
                           !.status = Status("Field copied")]
        ELSE e
    ELSE e

copy(e) ==
    IF e.focus = "TypeList" THEN
        IF IsSome(Get(e.types, e.selected_type))
        THEN LET current == Unwrap(Get(e.types, e.selected_type))
                 clone == [current EXCEPT !.name = @ \o Str("_copy")]
                 e1 == push_undo(e)
             IN [e1 EXCEPT !.types = Append(@, clone),
                           !.selected_type = Len(e1.types),
                           !.selected_field = 0,
                           !.status = Status("Type copied")]
        ELSE e
    ELSE IF e.focus = "FieldList" THEN
        IF IsSome(current_field(e))
        THEN LET field == Unwrap(current_field(e))
                 e1 == push_undo(e)
             IN [e1 EXCEPT !.types[e1.selected_type + 1].fields = Append(@, field),
                           !.selected_field = Len(e1.types[e1.selected_type + 1].fields),
                           !.status = Status("Field copied")]
        ELSE e
    ELSE e

\* ClampAfterRemove always stepping back to the predecessor
ClampToPredecessor(selected, new_len) ==
    IF new_len = 0 THEN 0
    ELSE IF selected > 0 THEN selected - 1
    ELSE 0

\* ClampAfterRemove leaving the selection as it is
ClampNever(selected, new_len) == selected

\* the selection after Vec::remove at the selected index left new_len entries
ClampAfterRemove(selected, new_len) ==
    IF selected >= new_len /\ new_len # 0 THEN new_len - 1
    ELSE IF new_len = 0 THEN 0
    ELSE selected

delete(e) ==
    IF e.focus = "TypeList" THEN
        IF e.types # <<>>
        THEN LET e1 == push_undo(e)
                 removed == RemoveAt(e1.types, e1.selected_type)
             IN [e1 EXCEPT !.types = removed,
                           !.selected_type = ClampAfterRemove(e1.selected_type, Len(removed)),
                           !.selected_field = 0,
                           !.status = Status("Type deleted")]
        ELSE e
    ELSE IF e.focus = "FieldList" THEN
        IF current_fields_len(e) > 0
        THEN LET e1 == push_undo(e)
                 removed == RemoveAt(e1.types[e1.selected_type + 1].fields, e1.selected_field)
             IN [e1 EXCEPT !.types[e1.selected_type + 1].fields = removed,
                           !.selected_field = ClampAfterRemove(e1.selected_field, Len(removed)),
                           !.status = Status("Field deleted")]
        ELSE e
    ELSE e


\* the removal loop taking the indices in ascending order
RECURSIVE RemoveTypesAscending(_, _)
RemoveTypesAscending(ts, indices) ==
    IF indices = <<>> THEN ts
    ELSE LET i == indices[Len(indices)] IN
         RemoveTypesAscending(IF i < Len(ts) THEN RemoveAt(ts, i) ELSE ts,
                              SubSeq(indices, 1, Len(indices) - 1))

\* the removal loop of delete_selected_types, indices in descending order
RECURSIVE RemoveTypes(_, _)
RemoveTypes(ts, indices) ==
    IF indices = <<>> THEN ts
    ELSE RemoveTypes(IF Head(indices) < Len(ts) THEN RemoveAt(ts, Head(indices)) ELSE ts,
                     Tail(indices))

delete_selected_types(e) ==
    IF e.types = <<>> THEN e
    ELSE IF selected_type_indices(e) = <<>> THEN e
    ELSE LET indices == Reverse(selected_type_indices(e))
             e1 == push_undo(e)
             removed == RemoveTypes(e1.types, indices)
         IN [e1 EXCEPT !.types = removed,
                       !.selected_type = IF removed = <<>> THEN 0
                                         ELSE IF @ >= Len(removed) THEN Len(removed) - 1
                                         ELSE @,
                       !.selected_field = 0,
                       !.multi_select = FALSE,
                       !.selected_types = {},
                       !.status = StatusN("Deleted types", Len(indices))]

\* the loop of delete_field_multi over the selected indices: [e, updated]
RECURSIVE DeleteFields(_, _, _)
DeleteFields(e, key, indices) ==
    IF indices = <<>> THEN [e |-> e, updated |-> 0]
    ELSE LET idx == Head(indices)
             pos == IF idx < Len(e.types) THEN Position(e.types[idx + 1].fields, key) ELSE -1
             hit == pos >= 0
             removed == RemoveAt(e.types[idx + 1].fields, pos)
             e1 == IF hit
                   THEN [e EXCEPT !.types[idx + 1].fields = removed,
                                  !.selected_field =
                                      IF idx = e.selected_type
                                      THEN ClampAfterRemove(@, Len(removed))
                                      ELSE @]
                   ELSE e
             rest == DeleteFields(e1, key, Tail(indices))
         IN [e |-> rest.e, updated |-> rest.updated + (IF hit THEN 1 ELSE 0)]

delete_field_multi(e) ==
    IF ~IsSome(current_field(e)) THEN e
    ELSE IF selected_type_indices(e) = <<>> THEN e
    ELSE LET key == Unwrap(current_field(e)).key
             r == DeleteFields(push_undo(e), key, selected_type_indices(e))
         IN [r.e EXCEPT !.status = StatusN("Deleted field from types", r.updated)]

delete_multi(e) ==
    IF e.focus = "TypeList" THEN delete_selected_types(e)
    ELSE IF e.focus = "FieldList" THEN delete_field_multi(e)
    ELSE e

\* what a write can do: succeed; fail at create, leaving the file as it
\* was; or fail in write_all after create truncated the file
WriteOutcomes == {"ok", "refused", "torn"}

\* fs::write / SshBackend::write_file: create (which truncates), write_all
WriteFile(d, file, content, outcome) ==
    [ok |-> outcome = "ok",
     disk |-> IF outcome = "ok" THEN [d EXCEPT ![file] = Some(content)]
              ELSE IF outcome = "torn" THEN [d EXCEPT ![file] = Some(Malformed)]
              ELSE d]

FileOp(op, file, content, ok) ==
    [op |-> op, file |-> file, content |-> content, ok |-> ok]

\* Editor::save writing the primary file first and the backup after it
save_overwrite_first(e, d, env) ==
    IF ~IsSome(e.path)
    THEN [ok |-> TRUE, e |-> [e EXCEPT !.status = Status("No file loaded")],
          disk |-> d, ops |-> <<>>]
    ELSE LET xml == File(serialize_types(e.types))
             w == WriteFile(d, "main", xml, env.main)
             prior == ReadFile(w.disk, env.readable)
             b == IF prior.ok THEN WriteFile(w.disk, "bak", prior.content, env.bak)
                  ELSE [ok |-> TRUE, disk |-> w.disk]
             ops == <<FileOp("write", "main", xml, w.ok),
                      FileOp("read", "main", prior.content, prior.ok)>>
                    \o (IF prior.ok
                        THEN <<FileOp("write", "bak", prior.content, b.ok)>>
                        ELSE <<>>)
         IN IF w.ok
            THEN [ok |-> TRUE,
                  e |-> [e EXCEPT !.status =
                            Status(IF e.source = "Local" THEN "Saved"
                                   ELSE "Saved remote")],
                  disk |-> b.disk, ops |-> ops]
            ELSE [ok |-> FALSE, e |-> e, disk |-> w.disk,
                  ops |-> <<FileOp("write", "main", xml, w.ok)>>]

\* Editor::save returning the error of a failed backup write
save_strict_backup(e, d, env) ==
    IF ~IsSome(e.path)
    THEN [ok |-> TRUE, e |-> [e EXCEPT !.status = Status("No file loaded")],
          disk |-> d, ops |-> <<>>]
    ELSE LET prior == ReadFile(d, env.readable)
             b == IF prior.ok THEN WriteFile(d, "bak", prior.content, env.bak)
                  ELSE [ok |-> TRUE, disk |-> d]
             ops1 == <<FileOp("read", "main", prior.content, prior.ok)>>
                     \o (IF prior.ok
                         THEN <<FileOp("write", "bak", prior.content, b.ok)>>
                         ELSE <<>>)
             xml == File(serialize_types(e.types))
             w == WriteFile(b.disk, "main", xml, env.main)
             ops2 == Append(ops1, FileOp("write", "main", xml, w.ok))
         IN IF ~b.ok THEN [ok |-> FALSE, e |-> e, disk |-> b.disk, ops |-> ops1]
            ELSE IF w.ok
            THEN [ok |-> TRUE,
                  e |-> [e EXCEPT !.status =
                            Status(IF e.source = "Local" THEN "Saved"
                                   ELSE "Saved remote")],
                  disk |-> w.disk, ops |-> ops2]
            ELSE [ok |-> FALSE, e |-> e, disk |-> w.disk, ops |-> ops2]

\* Editor::save on the disk d; env says which of its file operations
\* succeed.  The result is [ok, e, disk, ops]: ops lists the file
\* operations in the order the code makes them.  The file `bak` is
\* <path>.bak.  serialize_types writes into a Vec and has no failing case
\* for a field list; Mutex::lock fails only when poisoned by a panic of
\* another thread, and the program has one thread.
save(e, d, env) ==
    IF ~IsSome(e.path)
    THEN [ok |-> TRUE, e |-> [e EXCEPT !.status = Status("No file loaded")],
          disk |-> d, ops |-> <<>>]
    ELSE LET prior == ReadFile(d, env.readable)
             b == IF prior.ok THEN WriteFile(d, "bak", prior.content, env.bak)
                  ELSE [ok |-> TRUE, disk |-> d]
             ops1 == <<FileOp("read", "main", prior.content, prior.ok)>>
                     \o (IF prior.ok
                         THEN <<FileOp("write", "bak", prior.content, b.ok)>>
                         ELSE <<>>)
             xml == File(serialize_types(e.types))
             w == WriteFile(b.disk, "main", xml, env.main)
             ops2 == Append(ops1, FileOp("write", "main", xml, w.ok))
         IN IF w.ok
            THEN [ok |-> TRUE,
                  e |-> [e EXCEPT !.status =
                            Status(IF e.source = "Local" THEN "Saved"
                                   ELSE "Saved remote")],
                  disk |-> w.disk, ops |-> ops2]
            ELSE [ok |-> FALSE, e |-> e, disk |-> w.disk, ops |-> ops2]

\* Editor::handle_action for Action::Save: ignored while Editing
handle_save(e, d, env) ==
    IF e.focus = "Editing" THEN [ok |-> TRUE, e |-> e, disk |-> d, ops |-> <<>>]
    ELSE save(e, d, env)

PageDelta == 10


\* handle_action taking Undo while an edit is open
handle_action_undo_while_editing(e, action, c) ==
    IF e.focus = "Editing" THEN
        IF action = "Input" THEN [e EXCEPT !.input_buffer = Append(@, c)]
        ELSE IF action = "Backspace"
        THEN [e EXCEPT !.input_buffer = IF @ = <<>> THEN @ ELSE SubSeq(@, 1, Len(@) - 1)]
        ELSE IF action = "Activate"
        THEN LET r == apply_input(e) IN IF r.cont THEN r.e ELSE stop_editing(r.e)
        ELSE IF action = "Cancel"
        THEN [stop_editing([e EXCEPT !.input_buffer = EmptyString])
                 EXCEPT !.status = Status("Edit cancelled")]
        ELSE IF action = "Undo" THEN undo(e)
        ELSE e
    ELSE
        IF action = "Up" THEN move_selection(e, -1)
        ELSE IF action = "Down" THEN move_selection(e, 1)
        ELSE IF action = "Left" THEN [e EXCEPT !.focus = "TypeList"]
        ELSE IF action = "Right"
        THEN IF e.types # <<>> THEN [e EXCEPT !.focus = "FieldList"] ELSE e
        ELSE IF action = "PgUp" THEN move_selection(e, -PageDelta)
        ELSE IF action = "PgDown" THEN move_selection(e, PageDelta)
        ELSE IF action = "Activate"
        THEN IF e.multi_select
             THEN [e EXCEPT !.status = Status("Multi-select: editing disabled")]
             ELSE begin_editing(e)
        ELSE IF action = "Add" THEN add(e)
        ELSE IF action = "AddAttribute" THEN add_attribute(e)
        ELSE IF action = "Copy"
        THEN IF e.multi_select
             THEN [e EXCEPT !.status = Status("Multi-select: editing disabled")]
             ELSE copy(e)
        ELSE IF action = "Delete"
        THEN IF e.multi_select THEN delete_multi(e) ELSE delete(e)
        ELSE IF action = "Undo" THEN undo(e)
        ELSE IF action = "Redo" THEN redo(e)
        ELSE IF action = "ToggleSelect" THEN toggle_type_selection(e)
        ELSE IF action = "Cancel" THEN clear_multi_select(e)
        ELSE e    \* Action::Save is handle_save


\* handle_action with Right entering the field list of an empty document too
handle_action_right_unguarded(e, action, c) ==
    IF e.focus = "Editing" THEN
        IF action = "Input" THEN [e EXCEPT !.input_buffer = Append(@, c)]
        ELSE IF action = "Backspace"
        THEN [e EXCEPT !.input_buffer = IF @ = <<>> THEN @ ELSE SubSeq(@, 1, Len(@) - 1)]
        ELSE IF action = "Activate"
        THEN LET r == apply_input(e) IN IF r.cont THEN r.e ELSE stop_editing(r.e)
        ELSE IF action = "Cancel"
        THEN [stop_editing([e EXCEPT !.input_buffer = EmptyString])
                 EXCEPT !.status = Status("Edit cancelled")]
        ELSE e
    ELSE
        IF action = "Up" THEN move_selection(e, -1)
        ELSE IF action = "Down" THEN move_selection(e, 1)
        ELSE IF action = "Left" THEN [e EXCEPT !.focus = "TypeList"]
        ELSE IF action = "Right"
        THEN [e EXCEPT !.focus = "FieldList"]
        ELSE IF action = "PgUp" THEN move_selection(e, -PageDelta)
        ELSE IF action = "PgDown" THEN move_selection(e, PageDelta)
        ELSE IF action = "Activate"
        THEN IF e.multi_select
             THEN [e EXCEPT !.status = Status("Multi-select: editing disabled")]
             ELSE begin_editing(e)
        ELSE IF action = "Add" THEN add(e)
        ELSE IF action = "AddAttribute" THEN add_attribute(e)
        ELSE IF action = "Copy"
        THEN IF e.multi_select
             THEN [e EXCEPT !.status = Status("Multi-select: editing disabled")]
             ELSE copy(e)
        ELSE IF action = "Delete"
        THEN IF e.multi_select THEN delete_multi(e) ELSE delete(e)
        ELSE IF action = "Undo" THEN undo(e)
        ELSE IF action = "Redo" THEN redo(e)
        ELSE IF action = "ToggleSelect" THEN toggle_type_selection(e)
        ELSE IF action = "Cancel" THEN clear_multi_select(e)
        ELSE e    \* Action::Save is handle_save

\* Editor::handle_action; c is the character of Action::Input
handle_action(e, action, c) ==
    IF e.focus = "Editing" THEN
        IF action = "Input" THEN [e EXCEPT !.input_buffer = Append(@, c)]
        ELSE IF action = "Backspace"
        THEN [e EXCEPT !.input_buffer = IF @ = <<>> THEN @ ELSE SubSeq(@, 1, Len(@) - 1)]
        ELSE IF action = "Activate"
        THEN LET r == apply_input(e) IN IF r.cont THEN r.e ELSE stop_editing(r.e)
        ELSE IF action = "Cancel"
        THEN [stop_editing([e EXCEPT !.input_buffer = EmptyString])
                 EXCEPT !.status = Status("Edit cancelled")]
        ELSE e
    ELSE
        IF action = "Up" THEN move_selection(e, -1)
        ELSE IF action = "Down" THEN move_selection(e, 1)
        ELSE IF action = "Left" THEN [e EXCEPT !.focus = "TypeList"]
        ELSE IF action = "Right"
        THEN IF e.types # <<>> THEN [e EXCEPT !.focus = "FieldList"] ELSE e
        ELSE IF action = "PgUp" THEN move_selection(e, -PageDelta)
        ELSE IF action = "PgDown" THEN move_selection(e, PageDelta)
        ELSE IF action = "Activate"
        THEN IF e.multi_select
             THEN [e EXCEPT !.status = Status("Multi-select: editing disabled")]
             ELSE begin_editing(e)
        ELSE IF action = "Add" THEN add(e)
        ELSE IF action = "AddAttribute" THEN add_attribute(e)
        ELSE IF action = "Copy"
        THEN IF e.multi_select
             THEN [e EXCEPT !.status = Status("Multi-select: editing disabled")]
             ELSE copy(e)
        ELSE IF action = "Delete"
        THEN IF e.multi_select THEN delete_multi(e) ELSE delete(e)
        ELSE IF action = "Undo" THEN undo(e)
        ELSE IF action = "Redo" THEN redo(e)
        ELSE IF action = "ToggleSelect" THEN toggle_type_selection(e)
        ELSE IF action = "Cancel" THEN clear_multi_select(e)
        ELSE e    \* Action::Save is handle_save

----------------------------------------------------------------------------
(* History variables.  Core is the part of the editor state that the undo  *)
(* and redo claims compare.  hist counts the user-level commands made in a *)
(* row (n), then the Undo actions (k, mode "undo") and the Redo actions    *)
(* (k, mode "redo") that follow them; s0 is Core before the first of the   *)
(* commands and post is Core after the last.  open holds while the editing *)
(* session of a single-select Add / AddAttribute lasts: its commits belong *)
(* to that command.  recmd holds from a mutating command made after an     *)
(* Undo until the next Undo.                                               *)

Core(e) ==
    [types |-> e.types, selected_type |-> e.selected_type,
     selected_field |-> e.selected_field, multi_select |-> e.multi_select,
     selected_types |-> e.selected_types]

NoCore == Core(new)

HistInit ==
    [mode |-> "cmds", n |-> 0, k |-> 0, s0 |-> NoCore, post |-> NoCore,
     open |-> FALSE, undone |-> FALSE, recmd |-> FALSE]

\* the handler called push_undo
Pushed(e, action, e2) ==
    /\ action \notin {"Undo", "Redo"}
    /\ Len(e2.undo_stack) = Len(e.undo_stack) + 1

HistRestart(h) ==
    [h EXCEPT !.mode = "cmds", !.n = 0, !.k = 0, !.s0 = NoCore, !.post = NoCore]

HistStep(h, e, action, e2) ==
    LET continued == h.open /\ e.focus = "Editing"
        open2 == /\ e2.focus = "Editing"
                 /\ \/ action \in {"Add", "AddAttribute"} /\ Pushed(e, action, e2)
                    \/ continued
        h1 == [h EXCEPT !.open = open2]
    IN
    IF Pushed(e, action, e2) THEN
        IF continued THEN h1
        ELSE LET h2 == [h1 EXCEPT !.recmd = h.undone]
             IN IF h.mode = "cmds" /\ h.n > 0
                THEN [h2 EXCEPT !.n = h.n + 1]
                ELSE [h2 EXCEPT !.mode = "cmds", !.n = 1, !.k = 0,
                                !.s0 = Core(e), !.post = NoCore]
    ELSE IF action = "Undo" /\ e.focus # "Editing" /\ e.undo_stack # <<>> THEN
        LET h2 == [h1 EXCEPT !.undone = TRUE, !.recmd = FALSE]
        IN IF h.mode = "cmds" /\ h.n > 0
           THEN [h2 EXCEPT !.mode = "undo", !.k = 1, !.post = Core(e)]
           ELSE IF h.mode = "undo" /\ h.k < h.n
           THEN [h2 EXCEPT !.k = h.k + 1]
           ELSE HistRestart(h2)
    ELSE IF action = "Redo" /\ e.focus # "Editing" /\ e.redo_stack # <<>> THEN
        IF h.mode = "undo" /\ h.k = h.n
        THEN [h1 EXCEPT !.mode = "redo", !.k = 1]
        ELSE IF h.mode = "redo" /\ h.k < h.n
        THEN [h1 EXCEPT !.k = h.k + 1]
        ELSE HistRestart(h1)
    ELSE IF Core(e2) = Core(e) THEN h1
    ELSE HistRestart(h1)

\* last: the action handled, and before it the selected index and length of
\* the focused pane and the multi-select flag
LastInit == [op |-> "new", from |-> 0, len |-> 0, multi |-> FALSE]

\* the selected index and the length of the focused pane
PaneIndex(e) == IF e.focus = "TypeList" THEN e.selected_type ELSE e.selected_field
PaneLen(e) == IF e.focus = "TypeList" THEN Len(e.types) ELSE current_fields_len(e)

----------------------------------------------------------------------------
(* The input documents of the editor specification *)

NameOnly(n) == <<XmlAttr(Str("name"), Str(n))>>

Doc0 == <<>>
Doc1 ==
    << XmlType(NameOnly("A"),
               << XmlElem(Str("n"), <<>>, Str("1")),
                  XmlElem(Str("u"), <<XmlAttr(Str("v"), Str("x"))>>, EmptyString),
                  XmlElem(Str("u"), <<XmlAttr(Str("v"), Str("y"))>>, EmptyString) >>) >>
Doc2 ==
    << XmlType(NameOnly("A"), << XmlElem(Str("new_field"), <<>>, Str("1")) >>),
       XmlType(NameOnly("B"),
               << XmlElem(Str("new_field"), <<>>, Str("2")),
                  XmlElem(Str("f"), <<XmlAttr(Str("c"), Str("1"))>>, EmptyString) >>),
       XmlType(NameOnly("C"),
               << XmlElem(Str("f"), <<XmlAttr(Str("c"), Str("1"))>>, EmptyString) >>) >>

InputDocs == {Doc0, Doc1, Doc2}

\* the characters the user types
Chars == {"n"}

\* the path of the file the file picker selects
ThePath == <<"types.xml">>

\* ok and ops are the result and the file operations of the last Save,
\* before and editor are the files and the editor when it started
SaveLogInit ==
    [ok |-> TRUE, ops |-> <<>>, before |-> [main |-> None, bak |-> None],
     editor |-> new]

CodecIdle ==
    [stage |-> "idle", doc |-> <<>>, parsed |-> <<>>, written |-> <<>>,
     reparsed |-> <<>>]

----------------------------------------------------------------------------
(* The editor specification: main.rs loads a file picked in the file       *)
(* picker, then hands every action to Editor::handle_action.  The actions  *)
(* are those handle_action matches.  map_key_to_action of main.rs produces *)
(* no Undo, Redo or ToggleSelect (the keys u, U and space arrive as Input, *)
(* which handle_action ignores outside Editing): the model drives the      *)
(* Editor through its public handle_action, as the claims do.              *)

Init ==
    /\ window = "FilePicker"
    /\ types = new.types
    /\ selected_type = new.selected_type
    /\ selected_field = new.selected_field
    /\ multi_select = new.multi_select
    /\ selected_types = new.selected_types
    /\ undo_stack = new.undo_stack
    /\ redo_stack = new.redo_stack
    /\ focus = new.focus
    /\ editing_target = new.editing_target
    /\ pending_add = new.pending_add
    /\ input_buffer = new.input_buffer
    /\ status = new.status
    /\ path = new.path
    /\ source = new.source
    /\ last = LastInit
    /\ hist = HistInit
    /\ steps = 0
    /\ codec = CodecIdle
    /\ picker = "Local"
    /\ \E d \in InputDocs : disk = [main |-> Some(File(d)), bak |-> None]
    /\ proc = "running"
    /\ save_log = SaveLogInit

\* main.rs: the file picker returned a selection; Editor::load reads the
\* file, and only an Ok opens the editor window
Load ==
    /\ window = "FilePicker"
    /\ proc = "running"
    /\ \E readable \in BOOLEAN :
           LET r == load(Ed, FileSelection(ThePath, picker), ReadFile(disk, readable))
           IN /\ SetEditor(r.e)
              /\ window' = IF r.ok THEN "Editor" ELSE "FilePicker"
              /\ last' = [op |-> IF r.ok THEN "Load" ELSE "LoadFailed",
                          from |-> 0, len |-> 0, multi |-> FALSE]
    /\ hist' = HistInit
    /\ UNCHANGED <<steps, codec, envVars>>

\* the bounds of the model: the number of key events that change the state
\* and the length of the text the user types
Bounded(e, action) ==
    /\ steps < MaxSteps
    /\ action = "Input" => Len(e.input_buffer) < MaxInput

\* one key event of the editor window: main.rs hands it to handle_action
Handle(action, c) ==
    LET e2 == handle_action(Ed, action, c) IN
    /\ Bounded(Ed, action)
    /\ IF e2 = Ed
       THEN UNCHANGED vars
       ELSE /\ SetEditor(e2)
            /\ last' = [op |-> action, from |-> PaneIndex(Ed),
                         len |-> PaneLen(Ed), multi |-> multi_select]
            /\ hist' = HistStep(hist, Ed, action, e2)
            /\ steps' = steps + 1
            /\ UNCHANGED <<window, codec, envVars>>

Up ==
    /\ window = "Editor"
    /\ Handle("Up", "")
Down ==
    /\ window = "Editor"
    /\ Handle("Down", "")
Left ==
    /\ window = "Editor"
    /\ Handle("Left", "")
Right ==
    /\ window = "Editor"
    /\ Handle("Right", "")
PgUp ==
    /\ window = "Editor"
    /\ Handle("PgUp", "")
PgDown ==
    /\ window = "Editor"
    /\ Handle("PgDown", "")
Activate ==
    /\ window = "Editor"
    /\ Handle("Activate", "")
Cancel ==
    /\ window = "Editor"
    /\ Handle("Cancel", "")
Add ==
    /\ window = "Editor"
    /\ Handle("Add", "")
AddAttribute ==
    /\ window = "Editor"
    /\ Handle("AddAttribute", "")
Copy ==
    /\ window = "Editor"
    /\ Handle("Copy", "")
Delete ==
    /\ window = "Editor"
    /\ Handle("Delete", "")
Undo ==
    /\ window = "Editor"
    /\ Handle("Undo", "")
Redo ==
    /\ window = "Editor"
    /\ Handle("Redo", "")
ToggleSelect ==
    /\ window = "Editor"
    /\ Handle("ToggleSelect", "")
Input ==
    /\ window = "Editor"
    /\ \E c \in Chars : Handle("Input", c)
Backspace ==
    /\ window = "Editor"
    /\ Handle("Backspace", "")

Next ==
    \/ Load
    \/ Up
    \/ Down
    \/ Left
    \/ Right
    \/ PgUp
    \/ PgDown
    \/ Activate
    \/ Cancel
    \/ Add
    \/ AddAttribute
    \/ Copy
    \/ Delete
    \/ Undo
    \/ Redo
    \/ ToggleSelect
    \/ Input
    \/ Backspace

Spec == Init /\ [][Next]_vars

----------------------------------------------------------------------------
(* The file specification: load, a few editor actions and Save, with the   *)
(* files of the selected source and the outcome of every file operation.   *)
(* main.rs returns the error of Editor::handle_action with `?`, which ends *)
(* the process.                                                            *)

Fresh ==
    /\ window = "FilePicker"
    /\ types = new.types
    /\ selected_type = new.selected_type
    /\ selected_field = new.selected_field
    /\ multi_select = new.multi_select
    /\ selected_types = new.selected_types
    /\ undo_stack = new.undo_stack
    /\ redo_stack = new.redo_stack
    /\ focus = new.focus
    /\ editing_target = new.editing_target
    /\ pending_add = new.pending_add
    /\ input_buffer = new.input_buffer
    /\ status = new.status
    /\ path = new.path
    /\ source = new.source
    /\ last = LastInit
    /\ hist = HistInit
    /\ steps = 0
    /\ codec = CodecIdle
    /\ proc = "running"
    /\ save_log = SaveLogInit

InitFile ==
    /\ Fresh
    /\ picker \in {"Local", "Remote"}
    /\ \E m \in {File(Doc1), File(Doc2), Malformed}, b \in {None, Some(File(Doc0))} :
           disk = [main |-> Some(m), bak |-> b]

EditorActions ==
    {"Up", "Down", "Left", "Right", "PgUp", "PgDown", "Activate", "Cancel",
     "Add", "AddAttribute", "Copy", "Delete", "Undo", "Redo", "ToggleSelect",
     "Input", "Backspace"}

SaveEnvs == [readable : BOOLEAN, bak : WriteOutcomes, main : WriteOutcomes]

Edit ==
    /\ window = "Editor"
    /\ proc = "running"
    /\ steps < MaxFileSteps
    /\ \E action \in EditorActions, c \in Chars : Handle(action, c)

Save ==
    /\ window = "Editor"
    /\ proc = "running"
    /\ steps < MaxFileSteps
    /\ \E env \in SaveEnvs :
           LET r == handle_save(Ed, disk, env) IN
           IF r.ops = <<>> /\ r.e = Ed THEN UNCHANGED vars
           ELSE /\ SetEditor(r.e)
                /\ disk' = r.disk
                /\ proc' = IF r.ok THEN "running" ELSE "failed"
                /\ save_log' = [ok |-> r.ok, ops |-> r.ops, before |-> disk,
                                 editor |-> Ed]
                /\ last' = [op |-> "Save", from |-> PaneIndex(Ed),
                             len |-> PaneLen(Ed), multi |-> multi_select]
                /\ steps' = steps + 1
                /\ UNCHANGED <<window, hist, codec, picker>>

NextFile ==
    \/ Load
    \/ Edit
    \/ Save

SpecFile == InitFile /\ [][NextFile]_vars

----------------------------------------------------------------------------
(* The codec specification: a conforming input document is parsed, the     *)
(* result serialized, and the serialization parsed again.                  *)

CodecKids ==
    { XmlElem(Str("a"), <<>>, EmptyString),
      XmlElem(Str("a"), <<XmlAttr(Str("k"), Str("v"))>>, EmptyString),
      XmlElem(Str("a"), <<>>, <<" ", "x">>),
      XmlElem(Str("a"), <<XmlAttr(Str("k"), Str("v"))>>, Str("y")),
      XmlElem(Str("a"), <<>>, Str(" ")),
      XmlElem(Str("b"), <<XmlAttr(Str("k"), Str("w")), XmlAttr(Str("m"), EmptyString)>>,
              EmptyString),
      XmlElem(Str("b"), <<>>, <<"z", " ">>) }

ChildSeqs == UNION {[1..k -> CodecKids] : k \in 0..MaxChildren}

SecondTypes ==
    { XmlType(NameOnly("B"),
              << XmlElem(Str("a"), <<XmlAttr(Str("k"), Str("v"))>>, Str("x")) >>),
      XmlType(<<>>, << XmlElem(Str("b"), <<>>, Str("x")) >>) }

CodecDocs ==
    {<<>>}
        \cup {<<XmlType(NameOnly("A"), ks)>> : ks \in ChildSeqs}
        \cup {<<XmlType(NameOnly("A"), ks), t2>> : ks \in ChildSeqs, t2 \in SecondTypes}

InitCodec ==
    /\ window = "FilePicker"
    /\ types = new.types
    /\ selected_type = new.selected_type
    /\ selected_field = new.selected_field
    /\ multi_select = new.multi_select
    /\ selected_types = new.selected_types
    /\ undo_stack = new.undo_stack
    /\ redo_stack = new.redo_stack
    /\ focus = new.focus
    /\ editing_target = new.editing_target
    /\ pending_add = new.pending_add
    /\ input_buffer = new.input_buffer
    /\ status = new.status
    /\ path = new.path
    /\ source = new.source
    /\ last = LastInit
    /\ hist = HistInit
    /\ steps = 0
    /\ \E d \in CodecDocs : codec = [CodecIdle EXCEPT !.stage = "input", !.doc = d]
    /\ picker = "Local"
    /\ disk = [main |-> None, bak |-> None]
    /\ proc = "running"
    /\ save_log = SaveLogInit

CodecParse ==
    /\ codec.stage = "input"
    /\ codec' = [codec EXCEPT !.stage = "parsed", !.parsed = parse_types(codec.doc)]
    /\ UNCHANGED <<window, edVars, last, hist, steps, envVars>>

CodecSerialize ==
    /\ codec.stage = "parsed"
    /\ codec' = [codec EXCEPT !.stage = "written",
                              !.written = serialize_types(codec.parsed)]
    /\ UNCHANGED <<window, edVars, last, hist, steps, envVars>>

CodecReparse ==
    /\ codec.stage = "written"
    /\ codec' = [codec EXCEPT !.stage = "reparsed",
                              !.reparsed = parse_types(codec.written)]
    /\ UNCHANGED <<window, edVars, last, hist, steps, envVars>>

NextCodec ==
    \/ CodecParse
    \/ CodecSerialize
    \/ CodecReparse

SpecCodec == InitCodec /\ [][NextCodec]_vars

----------------------------------------------------------------------------
(* The nesting specification: the codec pipeline on well-formed documents  *)
(* in which child elements of a <type> have child elements of their own.   *)

NestedKids ==
    { XmlElem(Str("a"), <<>>, Str("x")),
      XmlElem(Str("a"), <<XmlAttr(Str("k"), Str("v"))>>, EmptyString),
      XmlElem(Str("b"), <<>>, Str("y")),
      XmlNested(Str("a"), <<>>, Str("x"), <<XmlElem(Str("g"), <<>>, EmptyString)>>),
      XmlNested(Str("a"), <<>>, Str("x"), <<XmlElem(Str("g"), <<>>, Str("z"))>>),
      XmlNested(Str("b"), <<XmlAttr(Str("k"), Str("v"))>>, EmptyString,
                <<XmlElem(Str("a"), <<>>, EmptyString)>>),
      XmlNested(Str("b"), <<>>, EmptyString,
                <<XmlElem(Str("g"), <<XmlAttr(Str("m"), Str("w"))>>, EmptyString)>>),
      XmlNested(Str("b"), <<>>, Str("y"),
                <<XmlElem(Str("g"), <<>>, EmptyString),
                  XmlElem(Str("a"), <<XmlAttr(Str("k"), Str("w"))>>, Str("z"))>>) }

NestedDocs ==
    {<<XmlType(NameOnly("A"), ks)>> :
        ks \in UNION {[1..k -> NestedKids] : k \in 1..MaxChildren}}

InitNested ==
    /\ window = "FilePicker"
    /\ types = new.types
    /\ selected_type = new.selected_type
    /\ selected_field = new.selected_field
    /\ multi_select = new.multi_select
    /\ selected_types = new.selected_types
    /\ undo_stack = new.undo_stack
    /\ redo_stack = new.redo_stack
    /\ focus = new.focus
    /\ editing_target = new.editing_target
    /\ pending_add = new.pending_add
    /\ input_buffer = new.input_buffer
    /\ status = new.status
    /\ path = new.path
    /\ source = new.source
    /\ last = LastInit
    /\ hist = HistInit
    /\ steps = 0
    /\ \E d \in NestedDocs : codec = [CodecIdle EXCEPT !.stage = "input", !.doc = d]
    /\ picker = "Local"
    /\ disk = [main |-> None, bak |-> None]
    /\ proc = "running"
    /\ save_log = SaveLogInit

SpecNested == InitNested /\ [][NextCodec]_vars

----------------------------------------------------------------------------
(* The serialization specification: serialize_types applied to the field   *)
(* lists the editor commands can leave in a type (groups that are not      *)
(* contiguous, several Element fields of one group), then parsed again.    *)

SerializeFields ==
    { Field(Element(Str("a"), 0), Str("x")),
      Field(Element(Str("a"), 0), Str("y")),
      Field(Attribute(Str("a"), 0, Str("k")), Str("v")),
      Field(Attribute(Str("a"), 0, Str("m")), Str("w")),
      Field(Element(Str("a"), 1), Str("y")),
      Field(Element(Str("b"), 0), Str("x")),
      Field(Attribute(Str("b"), 0, Str("k")), Str("v")) }

SerializeInputs ==
    {<<TypeEntry(Str("A"), fs)>> :
        fs \in UNION {[1..k -> SerializeFields] : k \in 0..MaxFields}}

InitSerialize ==
    /\ window = "FilePicker"
    /\ types = new.types
    /\ selected_type = new.selected_type
    /\ selected_field = new.selected_field
    /\ multi_select = new.multi_select
    /\ selected_types = new.selected_types
    /\ undo_stack = new.undo_stack
    /\ redo_stack = new.redo_stack
    /\ focus = new.focus
    /\ editing_target = new.editing_target
    /\ pending_add = new.pending_add
    /\ input_buffer = new.input_buffer
    /\ status = new.status
    /\ path = new.path
    /\ source = new.source
    /\ last = LastInit
    /\ hist = HistInit
    /\ steps = 0
    /\ \E ts \in SerializeInputs :
           codec = [CodecIdle EXCEPT !.stage = "parsed", !.parsed = ts]
    /\ picker = "Local"
    /\ disk = [main |-> None, bak |-> None]
    /\ proc = "running"
    /\ save_log = SaveLogInit

NextSerialize ==
    \/ CodecSerialize
    \/ CodecReparse

SpecSerialize == InitSerialize /\ [][NextSerialize]_vars

----------------------------------------------------------------------------
(* C1: round trip.  For every conforming input document, parsing the       *)
(* serialization of its parse gives the parse again: the same types in the *)
(* same order, each with the same ordered list of fields (keys with their  *)
(* index, and values).                                                     *)

RoundTrip ==
    codec.stage = "reparsed" => codec.reparsed = codec.parsed

----------------------------------------------------------------------------
(* C2: undo/redo symmetry.  After N user-level commands made in a row from *)
(* a state S0 (an Add or AddAttribute counted once together with the       *)
(* commits of its editing session), N Undo actions in a row restore types, *)
(* selected_type, selected_field, multi_select and selected_types to their *)
(* values in S0, and N further Redo actions restore their values after the *)
(* N-th command.                                                           *)

UndoRedoSymmetry ==
    /\ (hist.mode = "undo" /\ hist.k = hist.n) => Core(Ed) = hist.s0
    /\ (hist.mode = "redo" /\ hist.k = hist.n) => Core(Ed) = hist.post

----------------------------------------------------------------------------
(* C3: a new edit discards the redo history.  From a mutating command made *)
(* after an Undo until the next Undo the redo stack is empty, and a Redo   *)
(* handled then changes nothing but the status, which reports that there   *)
(* is nothing to redo (inside an editing session Redo changes nothing at   *)
(* all).                                                                   *)

RedoDiscarded ==
    hist.recmd =>
        /\ redo_stack = <<>>
        /\ handle_action(Ed, "Redo", "") =
               IF focus = "Editing" THEN Ed
               ELSE [Ed EXCEPT !.status = Status("Nothing to redo")]

RedoDiscardedWitness ==
    /\ hist.recmd
    /\ last.op = "Redo"
    /\ status = Status("Nothing to redo")
    /\ undo_stack # <<>>

----------------------------------------------------------------------------
(* C4: multi-add fan-out.  Committing the name F of a deferred Add-field   *)
(* records F and changes no type; committing the value V while the         *)
(* selection set is S appends to every type in S exactly one field, last,  *)
(* with key Element {name F, index = the number of Element-keyed fields    *)
(* named F the type had} and value V, leaves every type outside S as it    *)
(* was, and reports |S| types.                                             *)

ElementCount(fields, F) ==
    Cardinality({j \in 1..Len(fields) :
                    fields[j].key.kind = "Element" /\ fields[j].key.name = F})

MultiAddFanOut ==
    (/\ focus = "Editing"
     /\ multi_select
     /\ IsSome(pending_add)
     /\ Unwrap(pending_add).kind = "Field") =>
        LET e2 == handle_action(Ed, "Activate", "") IN
        IF editing_target = Some("FieldName")
        THEN /\ e2.types = types
             /\ e2.undo_stack = undo_stack
             /\ e2.pending_add = Some([Unwrap(pending_add) EXCEPT !.name = Some(input_buffer)])
             /\ e2.editing_target = Some("FieldValue")
        ELSE LET F == Unwrap(Unwrap(pending_add).name)
                 V == input_buffer
             IN /\ Len(e2.types) = Len(types)
                /\ \A i \in 1..Len(types) :
                       IF (i - 1) \in selected_types
                       THEN /\ e2.types[i].name = types[i].name
                            /\ e2.types[i].fields =
                                   Append(types[i].fields,
                                          [key |-> [kind |-> "Element", name |-> F,
                                                    index |-> ElementCount(types[i].fields, F),
                                                    attr |-> <<>>],
                                           value |-> V])
                       ELSE e2.types[i] = types[i]
                /\ e2.status = StatusN("Added field to types", Cardinality(selected_types))

MultiAddFanOutWitness ==
    /\ last.op = "Activate"
    /\ status.msg = "Added field to types"
    /\ status.n = Cardinality(selected_types)
    /\ selected_type \notin selected_types
    /\ \E i \in selected_types :
           LET fs == types[i + 1].fields IN
           /\ fs[Len(fs)].key.kind = "Element"
           /\ fs[Len(fs)].key.index >= 1

----------------------------------------------------------------------------
(* C5: batch delete.  Delete in multi-select mode with focus FieldList and *)
(* template key K of the current field removes from every selected type    *)
(* its first field with key K, if it has one, leaves the types without one *)
(* and the types outside the selection as they were, and reports the       *)
(* number of types that lost a field.                                      *)

KeyPositions(fields, K) == {j \in 1..Len(fields) : fields[j].key = K}

WithoutFirst(fields, K) ==
    IF KeyPositions(fields, K) = {} THEN fields
    ELSE LET p == CHOOSE j \in KeyPositions(fields, K) :
                      \A q \in KeyPositions(fields, K) : j <= q
         IN [j \in 1..(Len(fields) - 1) |-> IF j < p THEN fields[j] ELSE fields[j + 1]]

BatchDelete ==
    (/\ focus = "FieldList"
     /\ multi_select
     /\ IsSome(current_field(Ed))) =>
        LET K == Unwrap(current_field(Ed)).key
            e2 == handle_action(Ed, "Delete", "")
        IN /\ Len(e2.types) = Len(types)
           /\ \A i \in 1..Len(types) :
                  /\ e2.types[i].name = types[i].name
                  /\ e2.types[i].fields =
                         IF (i - 1) \in selected_types
                         THEN WithoutFirst(types[i].fields, K)
                         ELSE types[i].fields
                  /\ Cardinality(KeyPositions(types[i].fields, K))
                         - Cardinality(KeyPositions(e2.types[i].fields, K)) \in {0, 1}
           /\ e2.status =
                  StatusN("Deleted field from types",
                          Cardinality({i \in selected_types :
                                          KeyPositions(types[i + 1].fields, K) # {}}))

BatchDeleteWitness ==
    /\ last.op = "Delete"
    /\ last.multi
    /\ focus = "FieldList"
    /\ status.msg = "Deleted field from types"
    /\ status.n >= 1
    /\ status.n < Cardinality(selected_types)

----------------------------------------------------------------------------
(* C6: clamp on removal, as the specification states it.  After a          *)
(* single-select Delete of the selected type or field at index i the new   *)
(* selected index is the predecessor i-1 if there was one, is 0 if the     *)
(* list became empty, and is within the bounds of the shortened list.      *)

ClampPredecessor ==
    (last.op = "Delete" /\ ~last.multi) =>
        /\ last.from >= 1 => PaneIndex(Ed) = last.from - 1
        /\ PaneLen(Ed) = 0 => PaneIndex(Ed) = 0
        /\ PaneLen(Ed) = 0 \/ PaneIndex(Ed) < PaneLen(Ed)

(* C6, amended: after a single-select Delete at index i of a list of N     *)
(* entries the list has N-1 entries and the selected index is still i (the *)
(* successor moved into the place) when i < N-1, is the predecessor N-2    *)
(* when the last entry was deleted and N > 1, and is 0 when the list       *)
(* became empty; it is within the bounds of the shortened list.            *)

ClampOnRemoval ==
    (last.op = "Delete" /\ ~last.multi) =>
        /\ last.from < last.len
        /\ PaneLen(Ed) = last.len - 1
        /\ PaneIndex(Ed) = IF last.len = 1 THEN 0
                           ELSE IF last.from = last.len - 1 THEN last.len - 2
                           ELSE last.from
        /\ PaneLen(Ed) = 0 \/ PaneIndex(Ed) < PaneLen(Ed)

ClampOnRemovalWitness ==
    /\ last.op = "Delete"
    /\ ~last.multi
    /\ focus = "FieldList"
    /\ last.len = 3
    /\ last.from = 1
    /\ selected_field = 1

----------------------------------------------------------------------------
(* C7: wrap semantics.  With N >= 1 entries in the focused pane, Down from *)
(* index N-1 selects 0 and Up from index 0 selects N-1; PgDown from index  *)
(* 0 with N <= 10 selects N-1.                                             *)

WrapSemantics ==
    (focus # "Editing" /\ PaneLen(Ed) >= 1) =>
        LET N == PaneLen(Ed) IN
        /\ PaneIndex(Ed) = N - 1 => PaneIndex(handle_action(Ed, "Down", "")) = 0
        /\ PaneIndex(Ed) = 0 => PaneIndex(handle_action(Ed, "Up", "")) = N - 1
        /\ (PaneIndex(Ed) = 0 /\ N <= 10) =>
               PaneIndex(handle_action(Ed, "PgDown", "")) = N - 1

WrapSemanticsWitness ==
    /\ last.op = "Down"
    /\ last.len >= 2
    /\ last.from = last.len - 1
    /\ PaneIndex(Ed) = 0

----------------------------------------------------------------------------
(* C8: selection bounds.  In every reachable state selected_type is an     *)
(* index of types or the document is empty, and selected_field is an index *)
(* of the fields of the selected type or that type has no fields.          *)

SelectionBounds ==
    /\ types = <<>> \/ selected_type < Len(types)
    /\ types # <<>> =>
           \/ types[selected_type + 1].fields = <<>>
           \/ selected_field < Len(types[selected_type + 1].fields)

SelectionBoundsWitness ==
    /\ last.op = "Delete"
    /\ last.len >= 2
    /\ last.from = last.len - 1
    /\ PaneIndex(Ed) = PaneLen(Ed) - 1

----------------------------------------------------------------------------
(* C9: multi-selection.  In every reachable state, after Undo and Redo     *)
(* too, every index in selected_types is an index of types, and            *)
(* selected_types is empty exactly when multi_select is off.               *)

MultiSelectInvariant ==
    /\ \A i \in selected_types : i >= 0 /\ i < Len(types)
    /\ (selected_types = {}) <=> ~multi_select

MultiSelectWitness ==
    /\ last.op = "Undo"
    /\ multi_select
    /\ Cardinality(selected_types) >= 2
    /\ redo_stack # <<>>

----------------------------------------------------------------------------
(* C10: field identity.  In every state reached from a parsed document by  *)
(* editor commands no type holds two fields with equal FieldKey.           *)

FieldIdentity ==
    \A t \in 1..Len(types) :
        \A i, j \in 1..Len(types[t].fields) :
            types[t].fields[i].key = types[t].fields[j].key => i = j

----------------------------------------------------------------------------
(* C11: backup before overwrite.  On a Save with a loaded path whose prior *)
(* content C is readable, C is written to <path>.bak before the primary    *)
(* write to <path>; after a Save whose writes all succeeded <path>.bak     *)
(* holds C, the content <path> had before this Save, and <path> holds the  *)
(* serialization of the current types.                                     *)

SavePrior == Unwrap(save_log.before.main)

BackupBeforeOverwrite ==
    (last.op = "Save" /\ save_log.ops # <<>> /\ save_log.ops[1].ok) =>
        LET ops == save_log.ops
            xml == File(serialize_types(types))
        IN /\ Len(ops) = 3
           /\ ops[1] = FileOp("read", "main", SavePrior, TRUE)
           /\ ops[2].op = "write" /\ ops[2].file = "bak" /\ ops[2].content = SavePrior
           /\ ops[3].op = "write" /\ ops[3].file = "main" /\ ops[3].content = xml
           /\ (ops[2].ok /\ ops[3].ok) =>
                  /\ disk.bak = Some(SavePrior)
                  /\ disk.main = Some(xml)

BackupBeforeOverwriteWitness ==
    /\ last.op = "Save"
    /\ Len(save_log.ops) = 3
    /\ \A i \in 1..3 : save_log.ops[i].ok
    /\ IsSome(save_log.before.bak)
    /\ disk.bak = save_log.before.main
    /\ disk.bak # save_log.before.bak
    /\ disk.main # save_log.before.main

----------------------------------------------------------------------------
(* C12: the backup is best effort.  When the prior content cannot be read  *)
(* Save writes no backup and still writes the primary file; when the       *)
(* backup write fails Save still writes the primary file; Save succeeds,   *)
(* and reports it, exactly when the primary write succeeds.                *)

BackupBestEffort ==
    (last.op = "Save" /\ save_log.ops # <<>>) =>
        LET ops == save_log.ops
            primary == ops[Len(ops)]
        IN /\ primary.op = "write" /\ primary.file = "main"
           /\ primary.content = File(serialize_types(save_log.editor.types))
           /\ ~ops[1].ok =>
                  /\ Len(ops) = 2
                  /\ disk.bak = save_log.before.bak
           /\ save_log.ok <=> primary.ok
           /\ save_log.ok =>
                  /\ proc = "running"
                  /\ status.msg \in {"Saved", "Saved remote"}
                  /\ disk.main = Some(primary.content)

BackupBestEffortWitness ==
    /\ last.op = "Save"
    /\ Len(save_log.ops) = 3
    /\ ~save_log.ops[2].ok
    /\ save_log.ok
    /\ disk.main # save_log.before.main

----------------------------------------------------------------------------
(* C13: a failed Save leaves the content of <path> as it was before the    *)
(* Save (only <path>.bak may have changed), and leaves the editor's types, *)
(* selection and history stacks unchanged.                                 *)

FailedSaveLeavesFile ==
    (last.op = "Save" /\ ~save_log.ok) =>
        /\ disk.main = save_log.before.main
        /\ Core(Ed) = Core(save_log.editor)
        /\ undo_stack = save_log.editor.undo_stack
        /\ redo_stack = save_log.editor.redo_stack

----------------------------------------------------------------------------
(* C14: no error ends the process.  When Save fails in the editor window   *)
(* the status line reports the error and the main loop keeps running.      *)

SaveErrorSurfaced ==
    (last.op = "Save" /\ ~save_log.ok) =>
        /\ proc = "running"
        /\ status # save_log.editor.status

----------------------------------------------------------------------------
(* C15: a failed load (read error or XML parse error) leaves every part of *)
(* the editor state as it was: path, source, types, selection,             *)
(* multi-select flag and set, both history stacks, focus, editing target   *)
(* and pending add; the application stays in the file picker.              *)

FailedLoadKeepsState ==
    /\ \A readable \in BOOLEAN, src \in {"Local", "Remote"} :
           LET r == load(Ed, FileSelection(ThePath, src), ReadFile(disk, readable))
           IN ~r.ok => r.e = Ed
    /\ last.op = "LoadFailed" => (window = "FilePicker" /\ Ed = new)

FailedLoadWitness ==
    /\ last.op = "LoadFailed"
    /\ disk.main = Some(Malformed)
    /\ picker = "Remote"
    /\ window = "FilePicker"

----------------------------------------------------------------------------
(* C16: a successful load resets all state.  From any editor state, types  *)
(* becomes the parsed document, selected_type and selected_field 0,        *)
(* multi-select off with an empty set, both history stacks empty, focus    *)
(* TypeList, and no editing target, pending add or input text remains.     *)

Loaded(selection, content) ==
    [types |-> parse_types(content.types), selected_type |-> 0,
     selected_field |-> 0, multi_select |-> FALSE, selected_types |-> {},
     undo_stack |-> <<>>, redo_stack |-> <<>>, focus |-> "TypeList",
     editing_target |-> None, pending_add |-> None,
     input_buffer |-> EmptyString, status |-> Status("Loaded file"),
     path |-> Some(selection.path), source |-> selection.source]

LoadResets ==
    /\ \A src \in {"Local", "Remote"} :
           LET sel == FileSelection(ThePath, src)
               r == load(Ed, sel, ReadFile(disk, TRUE))
           IN r.ok => r.e = Loaded(sel, Unwrap(disk.main))
    /\ last.op = "Load" =>
           (window = "Editor" /\ Ed = Loaded(FileSelection(ThePath, picker), Unwrap(disk.main)))

LoadResetsWitness ==
    /\ last.op = "Load"
    /\ Len(types) = 3
    /\ path = Some(ThePath)
    /\ load(Ed, FileSelection(ThePath, picker), ReadFile(disk, TRUE)).ok

----------------------------------------------------------------------------
(* C17: edit idempotence.  Activating a field and committing with the      *)
(* input left equal to the field's value gives a types list equal to the   *)
(* one before the edit.                                                    *)

EditIdempotence ==
    /\ (focus = "FieldList" /\ ~multi_select /\ IsSome(current_field(Ed))) =>
           LET e1 == handle_action(Ed, "Activate", "")
               e2 == handle_action(e1, "Activate", "")
           IN /\ e1.focus = "Editing"
              /\ e1.editing_target = Some("FieldValue")
              /\ e2.focus = "FieldList"
              /\ e2.types = types
    /\ (/\ focus = "Editing"
        /\ editing_target = Some("FieldValue")
        /\ ~IsSome(pending_add)
        /\ IsSome(current_field(Ed))
        /\ input_buffer = Unwrap(current_field(Ed)).value) =>
           handle_action(Ed, "Activate", "").types = types

EditIdempotenceWitness ==
    /\ last.op = "Activate"
    /\ status = Status("Value updated")
    /\ undo_stack # <<>>
    /\ undo_stack[Len(undo_stack)].types = types
    /\ Unwrap(current_field(Ed)).value # EmptyString

----------------------------------------------------------------------------
(* C18: Add in TypeList with multi-select off appends, after the existing  *)
(* types and without changing them, one type named "new_type" whose fields *)
(* are the default template in its order; it selects the new type and      *)
(* enters Editing with target TypeName, and committing a name X leaves     *)
(* that type named X with the template fields.                             *)

Template ==
    << [key |-> [kind |-> "Element", name |-> <<"nominal">>, index |-> 0, attr |-> <<>>],
        value |-> <<>>],
       [key |-> [kind |-> "Element", name |-> <<"lifetime">>, index |-> 0, attr |-> <<>>],
        value |-> <<>>],
       [key |-> [kind |-> "Element", name |-> <<"restock">>, index |-> 0, attr |-> <<>>],
        value |-> <<>>],
       [key |-> [kind |-> "Element", name |-> <<"min">>, index |-> 0, attr |-> <<>>],
        value |-> <<>>],
       [key |-> [kind |-> "Element", name |-> <<"quantmin">>, index |-> 0, attr |-> <<>>],
        value |-> <<>>],
       [key |-> [kind |-> "Element", name |-> <<"quantmax">>, index |-> 0, attr |-> <<>>],
        value |-> <<>>],
       [key |-> [kind |-> "Element", name |-> <<"cost">>, index |-> 0, attr |-> <<>>],
        value |-> <<>>],
       [key |-> [kind |-> "Attribute", name |-> <<"flags">>, index |-> 0, attr |-> <<"count_in_cargo">>],
        value |-> <<"0">>],
       [key |-> [kind |-> "Attribute", name |-> <<"flags">>, index |-> 0, attr |-> <<"count_in_hoarder">>],
        value |-> <<"0">>],
       [key |-> [kind |-> "Attribute", name |-> <<"flags">>, index |-> 0, attr |-> <<"count_in_map">>],
        value |-> <<"1">>],
       [key |-> [kind |-> "Attribute", name |-> <<"flags">>, index |-> 0, attr |-> <<"count_in_player">>],
        value |-> <<"0">>],
       [key |-> [kind |-> "Attribute", name |-> <<"flags">>, index |-> 0, attr |-> <<"crafted">>],
        value |-> <<"0">>],
       [key |-> [kind |-> "Attribute", name |-> <<"flags">>, index |-> 0, attr |-> <<"deloot">>],
        value |-> <<"0">>],
       [key |-> [kind |-> "Attribute", name |-> <<"category">>, index |-> 0, attr |-> <<"name">>],
        value |-> <<>>] >>

TypedTexts == {<<>>, <<"n">>, <<"new_type">>}

AddTypeTemplate ==
    (focus = "TypeList" /\ ~multi_select) =>
        LET e1 == handle_action(Ed, "Add", "") IN
        /\ e1.types = Append(types, [name |-> <<"new_type">>, fields |-> Template])
        /\ e1.selected_type = Len(types)
        /\ e1.selected_field = 0
        /\ e1.focus = "Editing"
        /\ e1.editing_target = Some("TypeName")
        /\ \A X \in TypedTexts :
               LET e2 == handle_action([e1 EXCEPT !.input_buffer = X], "Activate", "")
               IN /\ e2.types = Append(types, [name |-> X, fields |-> Template])
                  /\ e2.focus = "TypeList"

AddTypeTemplateWitness ==
    /\ last.op = "Activate"
    /\ status = Status("Type renamed")
    /\ Len(types) >= 2
    /\ selected_type = Len(types) - 1
    /\ types[Len(types)] = [name |-> <<"n">>, fields |-> Template]

----------------------------------------------------------------------------
(* C19: single-select AddAttribute on a current field of group (E, I),     *)
(* Element- or Attribute-keyed, followed by the commits of a name A and a  *)
(* value V, leaves the current type with exactly one more field, appended  *)
(* last: Attribute {element E, index I, attr A} with value V.  In the      *)
(* serialization plan A=V is the last attribute of the element of group    *)
(* (E, I), and the other elements and their order are unchanged.           *)

AttrNames == {<<>>, <<"n">>, <<"new_attr">>}
AttrValues == {<<>>, <<"n">>}

AddAttributeAppends ==
    (focus # "Editing" /\ ~multi_select /\ IsSome(current_field(Ed))) =>
        LET base == Unwrap(current_field(Ed)).key
            fields == types[selected_type + 1].fields
            e1 == handle_action(Ed, "AddAttribute", "")
            order == PlanFields(PlanInit, fields).order
            old == WriteElements(fields)
        IN \A A \in AttrNames, V \in AttrValues :
               LET e2 == handle_action([e1 EXCEPT !.input_buffer = A], "Activate", "")
                   e3 == handle_action([e2 EXCEPT !.input_buffer = V], "Activate", "")
                   added == [key |-> [kind |-> "Attribute", name |-> base.name,
                                      index |-> base.index, attr |-> A],
                             value |-> V]
                   written == WriteElements(e3.types[selected_type + 1].fields)
               IN /\ e3.types = [types EXCEPT ![selected_type + 1].fields = Append(@, added)]
                  /\ e3.focus = "FieldList"
                  /\ Len(written) = Len(old)
                  /\ \A i \in 1..Len(old) :
                         written[i] =
                             IF order[i] = <<base.name, base.index>>
                             THEN [old[i] EXCEPT !.attrs =
                                      Append(@, [name |-> A, value |-> V])]
                             ELSE old[i]

AddAttributeAppendsWitness ==
    /\ last.op = "Activate"
    /\ status = Status("Value updated")
    /\ focus = "FieldList"
    /\ LET fs == types[selected_type + 1].fields IN
       /\ Len(fs) >= 2
       /\ selected_field = Len(fs) - 1
       /\ fs[Len(fs)].key.kind = "Attribute"
       /\ fs[Len(fs)].key.attr = <<"new_attr">>
       /\ fs[Len(fs)].key.name = <<"new_field">>
       /\ fs[1].key.kind = "Element"
       /\ Len(undo_stack) = 3

----------------------------------------------------------------------------
(* C20: snapshot before mutation.  Every step other than Undo, Redo and    *)
(* load that changes the types list pushes exactly one snapshot onto the   *)
(* undo stack, holding the types, selected_type, selected_field and        *)
(* multi-select state of the state before the step, and empties the redo   *)
(* stack.                                                                  *)

SnapshotBeforeMutation ==
    [][(types' # types /\ last'.op \notin {"Undo", "Redo", "Load", "LoadFailed"}) =>
           /\ Len(undo_stack') = Len(undo_stack) + 1
           /\ SubSeq(undo_stack', 1, Len(undo_stack)) = undo_stack
           /\ LET top == undo_stack'[Len(undo_stack')] IN
              /\ top.types = types
              /\ top.selected_type = selected_type
              /\ top.selected_field = selected_field
              /\ top.multi_select = multi_select
              /\ top.selected_types = selected_types
           /\ redo_stack' = <<>>]_vars

SnapshotBeforeMutationWitness ==
    /\ hist.recmd
    /\ last.op \in {"Copy", "Delete"}
    /\ redo_stack = <<>>
    /\ undo_stack # <<>>
    /\ undo_stack[Len(undo_stack)].types # types
    /\ undo_stack[Len(undo_stack)].multi_select

----------------------------------------------------------------------------
(* C21: page movement clamps and never wraps.  With N >= 1 entries in the  *)
(* focused pane (TypeList or FieldList) and selected index i, PgUp selects *)
(* max(0, min(N-1, i - 10)) and PgDown selects max(0, min(N-1, i + 10)),   *)
(* for every i, i = 0 with PgUp and i = N-1 with PgDown included.          *)

ClampIndex(i, N) == IF i < 0 THEN 0 ELSE IF i > N - 1 THEN N - 1 ELSE i

PageClamps ==
    (focus # "Editing" /\ PaneLen(Ed) >= 1) =>
        LET N == PaneLen(Ed)
            i == PaneIndex(Ed)
        IN /\ PaneIndex(handle_action(Ed, "PgUp", "")) = ClampIndex(i - 10, N)
           /\ PaneIndex(handle_action(Ed, "PgDown", "")) = ClampIndex(i + 10, N)

----------------------------------------------------------------------------
(* C22: AddAttribute has an effect only when focus is FieldList and a      *)
(* field is current.  Handled while focus is TypeList (multi-select off or *)
(* on), or while no field is current, it leaves types, both history        *)
(* stacks, focus and editing target unchanged.                             *)

AddAttributeOnlyInFieldList ==
    (focus # "Editing" /\ (focus = "TypeList" \/ ~IsSome(current_field(Ed)))) =>
        LET e2 == handle_action(Ed, "AddAttribute", "") IN
        /\ e2.types = types
        /\ e2.undo_stack = undo_stack
        /\ e2.redo_stack = redo_stack
        /\ e2.focus = focus
        /\ e2.editing_target = editing_target

----------------------------------------------------------------------------
(* C23: what multi-select disables.  While multi_select is on, Activate    *)
(* with focus TypeList (type rename), Copy in either pane and Add with     *)
(* focus TypeList leave types, selected_type, selected_field, the          *)
(* selection set, both history stacks and focus unchanged: only the status *)
(* message changes.                                                        *)

MultiSelectDisables ==
    (multi_select /\ focus # "Editing") =>
        /\ focus = "TypeList" =>
               handle_action(Ed, "Activate", "") =
                   [Ed EXCEPT !.status = Status("Multi-select: editing disabled")]
        /\ handle_action(Ed, "Copy", "") =
               [Ed EXCEPT !.status = Status("Multi-select: editing disabled")]
        /\ focus = "TypeList" =>
               handle_action(Ed, "Add", "") =
                   [Ed EXCEPT !.status =
                       Status("Multi-select: add fields from the field list")]

MultiSelectDisablesWitness ==
    /\ last.op = "Add"
    /\ multi_select
    /\ focus = "TypeList"
    /\ status = Status("Multi-select: add fields from the field list")
    /\ Cardinality(selected_types) >= 2
    /\ undo_stack # <<>>

----------------------------------------------------------------------------
(* C24: Activate in FieldList with a current field enters Editing with     *)
(* target FieldValue whether or not multi-select is on; the only Activate  *)
(* that multi-select suppresses is the type rename from TypeList.          *)

ActivateInFieldList ==
    /\ (focus = "FieldList" /\ IsSome(current_field(Ed))) =>
           LET e2 == handle_action(Ed, "Activate", "") IN
           /\ e2.focus = "Editing"
           /\ e2.editing_target = Some("FieldValue")
    /\ (focus = "TypeList" /\ multi_select) =>
           handle_action(Ed, "Activate", "").focus = "TypeList"

----------------------------------------------------------------------------
(* C25: a deferred multi-select add (field or attribute) is atomic.  From  *)
(* the Add / AddAttribute action through the name commit the types and     *)
(* both history stacks are unchanged; the value commit appends one field   *)
(* to every selected type and pushes exactly one undo frame, so that one   *)
(* Undo gives back the types without the added field; Cancel at the name   *)
(* stage or at the value stage leaves types and history unchanged and      *)
(* discards the pending add.                                               *)

PendingNames == {<<"n">>, <<"new_field">>}
PendingValues == {<<>>, <<"n">>}

SameDocument(e2) ==
    /\ e2.types = types
    /\ e2.undo_stack = undo_stack
    /\ e2.redo_stack = redo_stack

DeferredAddAtomic ==
    (multi_select /\ focus = "FieldList") =>
        \A action \in {"Add", "AddAttribute"} :
            LET e1 == handle_action(Ed, action, "")
                c1 == handle_action(e1, "Cancel", "")
            IN /\ (e1.focus = "Editing") <=>
                      (action = "Add" \/ IsSome(current_field(Ed)))
               /\ SameDocument(e1)
               /\ e1.focus = "Editing" =>
                  /\ IsSome(e1.pending_add)
                  /\ SameDocument(c1)
                  /\ c1.pending_add = None /\ c1.focus = "FieldList"
                  /\ \A N \in PendingNames, V \in PendingValues :
                         LET e2 == handle_action([e1 EXCEPT !.input_buffer = N],
                                                 "Activate", "")
                             c2 == handle_action(e2, "Cancel", "")
                             e3 == handle_action([e2 EXCEPT !.input_buffer = V],
                                                 "Activate", "")
                             e4 == handle_action(e3, "Undo", "")
                         IN /\ SameDocument(e2)
                            /\ e2.focus = "Editing" /\ IsSome(e2.pending_add)
                            /\ SameDocument(c2)
                            /\ c2.pending_add = None /\ c2.focus = "FieldList"
                            /\ Len(e3.undo_stack) = Len(undo_stack) + 1
                            /\ SubSeq(e3.undo_stack, 1, Len(undo_stack)) = undo_stack
                            /\ e3.undo_stack[Len(e3.undo_stack)].types = types
                            /\ e3.pending_add = None /\ e3.focus = "FieldList"
                            /\ Len(e3.types) = Len(types)
                            /\ \A i \in 1..Len(types) :
                                   IF (i - 1) \in selected_types
                                   THEN LET fs == e3.types[i].fields IN
                                        /\ Len(fs) = Len(types[i].fields) + 1
                                        /\ SubSeq(fs, 1, Len(fs) - 1) = types[i].fields
                                        /\ fs[Len(fs)].value = V
                                        /\ N \in {fs[Len(fs)].key.name, fs[Len(fs)].key.attr}
                                   ELSE e3.types[i] = types[i]
                            /\ e4.types = types
                            /\ e4.undo_stack = undo_stack

DeferredAddAtomicWitness ==
    /\ last.op = "Undo"
    /\ multi_select
    /\ focus = "FieldList"
    /\ undo_stack = <<>>
    /\ Len(redo_stack) = 1
    /\ LET after == redo_stack[1].types IN
       /\ Len(after) = Len(types)
       /\ \A i \in 1..Len(types) :
              IF (i - 1) \in selected_types
              THEN /\ Len(after[i].fields) = Len(types[i].fields) + 1
                   /\ after[i].fields[Len(after[i].fields)].key.kind = "Attribute"
              ELSE after[i] = types[i]

----------------------------------------------------------------------------
(* C26: single-select and multi-select Add-field follow the same index     *)
(* rule.  For the selected type T, a single-select Add in FieldList        *)
(* completed by the commits of a name F and a value V gives T the same     *)
(* final field list as a multi-select deferred add of F and V with the     *)
(* selection set {T}: the prior fields of T followed by Element {name F,   *)
(* index = the prior number of Element-keyed fields of T named F} with     *)
(* value V.                                                                *)

\* Add, then the commits of the name F and of the value V
AddCommitted(e, F, V) ==
    LET e1 == handle_action(e, "Add", "")
        e2 == handle_action([e1 EXCEPT !.input_buffer = F], "Activate", "")
    IN handle_action([e2 EXCEPT !.input_buffer = V], "Activate", "")

SameIndexRule ==
    (focus = "FieldList" /\ ~multi_select /\ types # <<>>) =>
        LET T == selected_type + 1
            prior == types[T].fields
            only == handle_action(
                        handle_action(handle_action(Ed, "Left", ""), "ToggleSelect", ""),
                        "Right", "")
        IN \A F \in PendingNames, V \in PendingValues :
               LET single == AddCommitted(Ed, F, V).types[T].fields
                   multi == AddCommitted(only, F, V).types[T].fields
                   expected ==
                       Append(prior,
                              [key |-> [kind |-> "Element", name |-> F,
                                        index |-> ElementCount(prior, F),
                                        attr |-> <<>>],
                               value |-> V])
               IN /\ only.selected_types = {selected_type}
                  /\ multi = expected
                  /\ single = expected

----------------------------------------------------------------------------
(* C27: parse ignores nesting beyond two levels.  A start tag inside a     *)
(* child element of a <type> (a grandchild), with its attributes and text, *)
(* adds no field to the type, advances no occurrence counter and does not  *)
(* change the fields of the enclosing child element and of its later       *)
(* siblings: the parse of a document is the parse of the same document     *)
(* without its grandchildren.                                              *)

WithoutGrandchildren(doc) ==
    [t \in 1..Len(doc) |->
        [doc[t] EXCEPT !.kids =
            [i \in 1..Len(doc[t].kids) |-> [doc[t].kids[i] EXCEPT !.kids = <<>>]]]]

GrandchildrenIgnored ==
    codec.stage = "parsed" =>
        codec.parsed = parse_types(WithoutGrandchildren(codec.doc))

----------------------------------------------------------------------------
(* C28: parse index assignment.  For a document of the file format (a flat *)
(* list of <type> elements whose children have no child elements), in      *)
(* every parsed type the fields of the k-th (0-based) child element named  *)
(* n carry index k, the count restarting at 0 in every <type>; the         *)
(* attribute fields of an element come in attribute order and before its   *)
(* text field; whitespace-only text gives no field and other text is       *)
(* stored without its leading and trailing whitespace.                     *)

NonBlank(t) == {i \in 1..Len(t) : t[i] # " "}

Trimmed(t) ==
    IF NonBlank(t) = {} THEN <<>>
    ELSE SubSeq(t, CHOOSE i \in NonBlank(t) : \A j \in NonBlank(t) : i <= j,
                   CHOOSE i \in NonBlank(t) : \A j \in NonBlank(t) : i >= j)

\* the number of children before the i-th that have its name
Occurrence(kids, i) ==
    Cardinality({j \in 1..(i - 1) : kids[j].name = kids[i].name})

ChildFields(kids, i) ==
    LET x == kids[i]
        k == Occurrence(kids, i)
    IN [a \in 1..Len(x.attrs) |->
           [key |-> [kind |-> "Attribute", name |-> x.name, index |-> k,
                     attr |-> x.attrs[a].name],
            value |-> x.attrs[a].value]]
       \o (IF NonBlank(x.text) = {} THEN <<>>
           ELSE <<[key |-> [kind |-> "Element", name |-> x.name, index |-> k,
                            attr |-> <<>>],
                   value |-> Trimmed(x.text)]>>)

ParseIndexAssignment ==
    codec.stage = "parsed" =>
        /\ Len(codec.parsed) = Len(codec.doc)
        /\ \A t \in 1..Len(codec.doc) :
               codec.parsed[t].fields =
                   Flatten([i \in 1..Len(codec.doc[t].kids) |->
                               ChildFields(codec.doc[t].kids, i)])

ParseIndexAssignmentWitness ==
    /\ codec.stage = "parsed"
    /\ Len(codec.parsed) = 2
    /\ Len(codec.doc[1].kids) = 2
    /\ codec.doc[1].kids[1].text = Str(" ")
    /\ LET fs == codec.parsed[1].fields IN
       /\ Len(fs) = 2
       /\ fs[1].key.kind = "Attribute" /\ fs[1].key.index = 1
       /\ fs[2].key.kind = "Element" /\ fs[2].key.index = 1
    /\ codec.parsed[2].fields[1].key.index = 0
    /\ codec.parsed[2].fields[1].key.name = Str("a")

----------------------------------------------------------------------------
(* C29: serialization grouping.  For any field list of a type, contiguous  *)
(* or not, serialization writes exactly one element per distinct group key *)
(* (element, index), in the order of the first occurrence of the keys in   *)
(* the field list; the attributes of the element are the Attribute fields  *)
(* of the group in field order, and its text is the value of the last      *)
(* Element field of the group, or absent when the group has none.          *)

KeyOf(f) == <<f.key.name, f.key.index>>
FirstOccurrence(fs, K) ==
    CHOOSE i \in 1..Len(fs) : KeyOf(fs[i]) = K /\ \A j \in 1..(i - 1) : KeyOf(fs[j]) # K
\* the key of the p-th group in order of first occurrence
GroupAt(fs, p) ==
    LET keys == {KeyOf(fs[i]) : i \in 1..Len(fs)} IN
    CHOOSE K \in keys :
        Cardinality({L \in keys : FirstOccurrence(fs, L) < FirstOccurrence(fs, K)}) = p - 1
GroupAttrs(fs, K) ==
    LET hits == SelectSeq(fs, LAMBDA f : KeyOf(f) = K /\ f.key.kind = "Attribute")
    IN [i \in 1..Len(hits) |-> [name |-> hits[i].key.attr, value |-> hits[i].value]]
GroupTexts(fs, K) ==
    SelectSeq(fs, LAMBDA f : KeyOf(f) = K /\ f.key.kind = "Element")

SerializationGrouping ==
    codec.stage \in {"written", "reparsed"} =>
        /\ Len(codec.written) = Len(codec.parsed)
        /\ \A t \in 1..Len(codec.parsed) :
               LET fs == codec.parsed[t].fields
                   out == codec.written[t].kids
                   plan == PlanFields(PlanInit, fs)
               IN /\ Len(out) = Cardinality({KeyOf(fs[i]) : i \in 1..Len(fs)})
                  /\ \A p \in 1..Len(out) :
                         LET K == GroupAt(fs, p)
                             texts == GroupTexts(fs, K)
                         IN /\ out[p].name = K[1]
                            /\ out[p].attrs = GroupAttrs(fs, K)
                            /\ out[p].kids = <<>>
                            /\ IF texts = <<>>
                               THEN /\ out[p].text = <<>>
                                    /\ plan.element_map[K].text = <<>>
                               ELSE /\ out[p].text = texts[Len(texts)].value
                                    /\ plan.element_map[K].text =
                                           <<texts[Len(texts)].value>>

SerializationGroupingWitness ==
    /\ codec.stage = "written"
    /\ LET fs == codec.parsed[1].fields
           out == codec.written[1].kids
       IN /\ Len(fs) = 3
          /\ fs[1].key.kind = "Element" /\ fs[3].key.kind = "Element"
          /\ KeyOf(fs[1]) = KeyOf(fs[3])
          /\ KeyOf(fs[2]) # KeyOf(fs[1])
          /\ fs[1].value # fs[3].value
          /\ Len(out) = 2
          /\ out[1].text = fs[3].value
          /\ out[2].attrs # <<>>

----------------------------------------------------------------------------
(* C30: every Editing session ends.  From any Editing state Cancel leaves  *)
(* Editing in one step, and Activate leaves it after at most two Activates *)
(* in a row (name, then value); the focus afterwards is TypeList if the    *)
(* editing target at the exit was TypeName and FieldList if it was         *)
(* FieldName or FieldValue.                                                *)

ExitFocus(target) ==
    IF target = <<"TypeName">> THEN "TypeList" ELSE "FieldList"

EditingEnds ==
    focus = "Editing" =>
        LET c == handle_action(Ed, "Cancel", "")
            a1 == handle_action(Ed, "Activate", "")
            a2 == handle_action(a1, "Activate", "")
        IN /\ editing_target \in {<<"TypeName">>, <<"FieldName">>, <<"FieldValue">>}
           /\ c.focus = ExitFocus(editing_target)
           /\ c.editing_target = <<>>
           /\ IF a1.focus # "Editing"
              THEN /\ a1.focus = ExitFocus(editing_target)
                   /\ a1.editing_target = <<>>
              ELSE /\ editing_target = <<"FieldName">>
                   /\ a1.editing_target = <<"FieldValue">>
                   /\ a2.focus = "FieldList"
                   /\ a2.editing_target = <<>>

EditingEndsWitness ==
    /\ last.op = "Activate"
    /\ focus = "FieldList"
    /\ editing_target = <<>>
    /\ status = Status("Value updated")
    /\ Len(undo_stack) = 3
    /\ undo_stack[3].focus = "FieldList"
    /\ undo_stack[3].types # undo_stack[2].types
    /\ undo_stack[3].types = types

----------------------------------------------------------------------------
(* C31: committing a field name outside a deferred add changes only the    *)
(* name component of the key of the current field (the name of an Element  *)
(* key, the attr of an Attribute key): element, index and value are kept   *)
(* and no other field changes.  The session stays in Editing with target   *)
(* FieldValue and the input buffer holds the value of that field; the      *)
(* second commit sets the value and returns to FieldList.                  *)

FieldNameCommit ==
    (/\ focus = "Editing"
     /\ editing_target = <<"FieldName">>
     /\ pending_add = <<>>
     /\ IsSome(current_field(Ed))) =>
        LET T == selected_type + 1
            F == selected_field + 1
            old == types[T].fields[F]
        IN \A N \in PendingNames, V \in PendingValues :
               LET e2 == handle_action([Ed EXCEPT !.input_buffer = N], "Activate", "")
                   e3 == handle_action([e2 EXCEPT !.input_buffer = V], "Activate", "")
                   renamed == IF old.key.kind = "Element"
                              THEN [kind |-> "Element", name |-> N,
                                    index |-> old.key.index, attr |-> <<>>]
                              ELSE [kind |-> "Attribute", name |-> old.key.name,
                                    index |-> old.key.index, attr |-> N]
               IN /\ e2.types = [types EXCEPT ![T].fields[F] =
                                    [key |-> renamed, value |-> old.value]]
                  /\ e2.focus = "Editing"
                  /\ e2.editing_target = <<"FieldValue">>
                  /\ e2.input_buffer = old.value
                  /\ e2.selected_type = selected_type
                  /\ e2.selected_field = selected_field
                  /\ e3.types = [types EXCEPT ![T].fields[F] =
                                    [key |-> renamed, value |-> V]]
                  /\ e3.focus = "FieldList"
                  /\ e3.editing_target = <<>>

FieldNameCommitWitness ==
    /\ last.op = "Activate"
    /\ focus = "Editing"
    /\ editing_target = <<"FieldValue">>
    /\ status = Status("Field renamed; edit value")
    /\ LET f == Unwrap(current_field(Ed)) IN
       /\ f.key.kind = "Attribute"
       /\ f.key.attr = <<>>
       /\ f.key.name = <<"u">>
       /\ f.key.index = 1
       /\ input_buffer = f.value

----------------------------------------------------------------------------
(* C32: single-select Copy in TypeList appends exactly one type, named as  *)
(* the current type followed by "_copy" and with the field list of the     *)
(* current type; the types that were there keep their content and          *)
(* position; selected_type becomes the last index and selected_field 0;    *)
(* later edits of the clone never change the original.                     *)

\* a few edits of the selected type, made from the type list
CloneEdits ==
    { <<"Activate", "Backspace", "Activate">>,
      <<"Right", "Delete">>,
      <<"Right", "Add", "Activate", "Activate">>,
      <<"AddAttribute", "Backspace", "Activate", "Activate">>,
      <<"Right", "Activate", "Backspace", "Activate">>,
      <<"Right", "Copy">>,
      <<"Delete">> }

RECURSIVE Perform(_, _)
Perform(e, actions) ==
    IF actions = <<>> THEN e
    ELSE Perform(handle_action(e, Head(actions), ""), Tail(actions))

CopyType ==
    (focus = "TypeList" /\ ~multi_select /\ types # <<>>) =>
        LET current == types[selected_type + 1]
            e1 == handle_action(Ed, "Copy", "")
        IN /\ e1.types = Append(types, [name |-> current.name \o <<"_copy">>,
                                        fields |-> current.fields])
           /\ e1.selected_type = Len(types)
           /\ e1.selected_field = 0
           /\ \A edit \in CloneEdits :
                  LET e2 == Perform(e1, edit) IN
                  /\ Len(e2.types) >= Len(types)
                  /\ SubSeq(e2.types, 1, Len(types)) = types

CopyTypeWitness ==
    /\ last.op = "Delete"
    /\ focus = "FieldList"
    /\ Len(types) >= 2
    /\ selected_type = Len(types) - 1
    /\ \E i \in 1..(Len(types) - 1) :
           /\ types[Len(types)].name = types[i].name \o <<"_copy">>
           /\ Len(types[Len(types)].fields) = Len(types[i].fields) - 1
    /\ undo_stack[1].types = SubSeq(types, 1, Len(types) - 1)

----------------------------------------------------------------------------
(* C33: Delete in TypeList with multi-select on and selection set S        *)
(* removes exactly the types at the indices in S: the result is the list   *)
(* with those positions removed, the other types in their order and with   *)
(* their content; afterwards multi_select is off with an empty set and     *)
(* selected_type is within bounds (0 when the document became empty).      *)

RECURSIVE KeepFrom(_, _, _)
KeepFrom(ts, S, i) ==
    IF i > Len(ts) THEN <<>>
    ELSE (IF (i - 1) \in S THEN <<>> ELSE <<ts[i]>>) \o KeepFrom(ts, S, i + 1)

DeleteSelectedTypes ==
    (focus = "TypeList" /\ multi_select) =>
        LET e2 == handle_action(Ed, "Delete", "") IN
        /\ e2.types = KeepFrom(types, selected_types, 1)
        /\ Len(e2.types) = Len(types) - Cardinality(selected_types)
        /\ ~e2.multi_select
        /\ e2.selected_types = {}
        /\ IF e2.types = <<>> THEN e2.selected_type = 0
           ELSE e2.selected_type < Len(e2.types)
        /\ e2.status = StatusN("Deleted types", Cardinality(selected_types))

DeleteSelectedTypesWitness ==
    /\ last.op = "Delete"
    /\ last.multi
    /\ focus = "TypeList"
    /\ status = StatusN("Deleted types", 2)
    /\ ~multi_select
    /\ Len(types) = 1
    /\ types[1].name = <<"B">>
    /\ undo_stack[Len(undo_stack)].selected_types = {0, 2}

----------------------------------------------------------------------------
(* C34: restoring never lands in a half-finished edit: after an Undo or a  *)
(* Redo that restores a snapshot, focus is TypeList or FieldList,          *)
(* editing_target and pending_add are unset and the input buffer is empty; *)
(* Undo on an empty undo stack and Redo on an empty redo stack change      *)
(* nothing but the status message.                                         *)

Restored(e2) ==
    /\ e2.focus \in {"TypeList", "FieldList"}
    /\ e2.editing_target = None
    /\ e2.pending_add = None
    /\ e2.input_buffer = EmptyString

OnlyStatus(e2) ==
    [e2 EXCEPT !.status = status] = Ed

RestoreLeavesNoEdit ==
    LET u == handle_action(Ed, "Undo", "")
        r == handle_action(Ed, "Redo", "")
    IN /\ (last.op \in {"Undo", "Redo"}
             /\ status.msg \in {"Undid change", "Redid change"}) => Restored(Ed)
       /\ (focus # "Editing" /\ undo_stack # <<>>) => Restored(u)
       /\ (focus # "Editing" /\ redo_stack # <<>>) => Restored(r)
       /\ undo_stack = <<>> => OnlyStatus(u)
       /\ redo_stack = <<>> => OnlyStatus(r)

\* an Undo that restored the snapshot a commit pushed while focus was Editing
RestoreLeavesNoEditWitness ==
    /\ last.op = "Undo"
    /\ status = Status("Undid change")
    /\ focus = "FieldList"
    /\ redo_stack # <<>>
    /\ redo_stack[Len(redo_stack)].focus = "TypeList"
    /\ undo_stack = <<>>
    /\ handle_action(Ed, "Undo", "").status = Status("Nothing to undo")

----------------------------------------------------------------------------
(* C35: Undo restores the focus of the pre-command state: after Undo of a  *)
(* mutating command, focus equals the pane (TypeList or FieldList) that    *)
(* had focus immediately before that command was started, for every        *)
(* command including a type rename started from TypeList.                  *)

\* the commands: Delete, Copy, and an edit of the current item (Activate,
\* the buffer kept or shortened, Activate; a field of an attribute commits
\* its name, then its value)
FocusCommands ==
    { <<"Delete">>, <<"Copy">>,
      <<"Activate", "Activate">>,
      <<"Activate", "Backspace", "Activate">>,
      <<"Activate", "Activate", "Activate">> }

UndoFocusAfter(cmd) ==
    LET e2 == Perform(Ed, cmd) IN
    (e2.focus # "Editing" /\ e2.undo_stack # undo_stack) =>
        handle_action(e2, "Undo", "").focus = focus

UndoRestoresFocus ==
    focus \in {"TypeList", "FieldList"} =>
        \A cmd \in FocusCommands : UndoFocusAfter(cmd)

\* the same, for the commands started in the field list only
UndoRestoresFieldListFocus ==
    focus = "FieldList" => \A cmd \in FocusCommands : UndoFocusAfter(cmd)

\* the same in the type list, the rename left out
UndoRestoresTypeListFocus ==
    focus = "TypeList" => \A cmd \in {<<"Delete">>, <<"Copy">>} : UndoFocusAfter(cmd)

----------------------------------------------------------------------------
(* Editor::draw, as far as it can end the process: the tips pane unwraps   *)
(* current_field(); the other widgets are built from what is there.        *)

draw(e) == IF IsSome(current_field(e)) THEN "drawn" ELSE "panic"

(* C36: rendering never aborts the process: in every state reachable after *)
(* a successful load, an empty document and a selected type with no fields *)
(* included, drawing the editor completes without a panic.                 *)

RenderingCompletes ==
    window = "Editor" => draw(Ed) = "drawn"

\* the same while the selected type has a field
RenderingCompletesOnFields ==
    (window = "Editor" /\ current_fields_len(Ed) > 0) => draw(Ed) = "drawn"

\* a selected type the fields of which were all deleted
RenderingEmptyType ==
    ~(window = "Editor" /\ types # <<>> /\ current_fields_len(Ed) = 0
        /\ draw(Ed) = "panic")

----------------------------------------------------------------------------
(* C37: editing-mode consistency: in every reachable state, focus is       *)
(* Editing if and only if editing_target is set, and pending_add is set    *)
(* only while focus is Editing and multi_select is on.                     *)

EditingConsistency ==
    /\ focus = "Editing" <=> IsSome(editing_target)
    /\ IsSome(pending_add) => (focus = "Editing" /\ multi_select)

\* a multi-select add between its name commit and its value commit
EditingConsistencyWitness ==
    /\ last.op = "Activate"
    /\ focus = "Editing"
    /\ editing_target = Some("FieldValue")
    /\ IsSome(pending_add)
    /\ multi_select
    /\ Cardinality(selected_types) = 2

----------------------------------------------------------------------------
(* C38: while focus is Editing, every action other than Activate (Undo,    *)
(* Redo, Delete, Add, Copy, Save, ToggleSelect and navigation included)    *)
(* leaves types, selected_type, selected_field, the multi-select state and *)
(* both history stacks unchanged: Input and Backspace change only the      *)
(* input buffer, and Cancel only ends the edit.                            *)

DocumentKept(e2) ==
    /\ Core(e2) = Core(Ed)
    /\ e2.undo_stack = undo_stack
    /\ e2.redo_stack = redo_stack

EditingIsModal ==
    focus = "Editing" =>
        /\ \A action \in EditorActions \ {"Activate"}, c \in Chars :
               LET e2 == handle_action(Ed, action, c) IN
               /\ DocumentKept(e2)
               /\ action \in {"Input", "Backspace"} =>
                      [e2 EXCEPT !.input_buffer = input_buffer] = Ed
               /\ action = "Input" => e2.input_buffer = Append(input_buffer, c)
               /\ action = "Cancel" =>
                      /\ e2.focus \in {"TypeList", "FieldList"}
                      /\ e2.editing_target = None
                      /\ e2.path = path /\ e2.source = source
               /\ action \notin {"Input", "Backspace", "Cancel"} => e2 = Ed
        /\ \A env \in SaveEnvs :
               LET r == handle_save(Ed, disk, env) IN
               DocumentKept(r.e) /\ r.disk = disk

\* a cancelled multi-select add: the selection set and the history are there
EditingIsModalWitness ==
    /\ last.op = "Cancel"
    /\ status = Status("Edit cancelled")
    /\ focus # "Editing"
    /\ multi_select
    /\ selected_types # {}
    /\ pending_add = None
    /\ undo_stack # <<>>

----------------------------------------------------------------------------
(* C39: Undo immediately followed by Redo is the identity: from any        *)
(* non-Editing state with a non-empty undo stack, Undo then Redo restores  *)
(* the same types, selected_type, selected_field, multi_select,            *)
(* selected_types and focus, and leaves the undo and redo stacks with the  *)
(* same contents as before; symmetrically for Redo then Undo when the redo *)
(* stack is non-empty.                                                     *)

SameButStatus(e2) ==
    /\ Core(e2) = Core(Ed)
    /\ e2.focus = focus
    /\ e2.undo_stack = undo_stack
    /\ e2.redo_stack = redo_stack

UndoRedoIdentity ==
    focus # "Editing" =>
        /\ undo_stack # <<>> => SameButStatus(Perform(Ed, <<"Undo", "Redo">>))
        /\ redo_stack # <<>> => SameButStatus(Perform(Ed, <<"Redo", "Undo">>))

\* a Redo made right after an Undo, both stacks in use
UndoRedoIdentityWitness ==
    /\ last.op = "Redo"
    /\ status = Status("Redid change")
    /\ hist.mode = "redo"
    /\ hist.k = 1
    /\ Core(Ed) = hist.post
    /\ undo_stack # <<>>
    /\ redo_stack # <<>>
    /\ Perform(Ed, <<"Undo", "Redo">>).types = types
    /\ Perform(Ed, <<"Undo">>).types # types

----------------------------------------------------------------------------
(* C40: in every reachable state, focus = FieldList or focus = Editing     *)
(* implies that the document is non-empty: no sequence of Right, deletes,  *)
(* undo and redo leaves the field pane or an edit session active over an   *)
(* empty types list.                                                       *)

FieldPaneHasDocument ==
    focus \in {"FieldList", "Editing"} => types # <<>>

\* a document emptied after work in the field pane: Right stays where it is
FieldPaneHasDocumentWitness ==
    /\ last.op = "Delete"
    /\ types = <<>>
    /\ focus = "TypeList"
    /\ Len(undo_stack) >= 2
    /\ undo_stack[1].focus = "FieldList"
    /\ handle_action(Ed, "Right", "") = Ed

====
